---- MODULE Spec2Model ----
(***************************************************************************)
(* A model of the bank statement import of peruanita_bank_import:          *)
(*   models/bank_import.py          BankImport, BankImportLine,            *)
(*                                  BankImportMatch                        *)
(*   wizards/bank_import_wizard.py  BankImportWizard                       *)
(* One Import (bank.import record) with its Transactions (line_ids) and    *)
(* Matches (matched_payment_ids), the external payment registry            *)
(* (account.payment) and the three operations on the Import:               *)
(* action_process_file, action_match_payments and action_advanced_match.   *)
(* Text is a sequence of one-character strings; amounts are integers in    *)
(* thousandths of the currency unit (100.005 is 100005).                   *)
(***************************************************************************)
EXTENDS Integers, Sequences, FiniteSets, TLC

(***************************************************************************)
(* Bounds of the model.                                                    *)
(***************************************************************************)
\* no call creates more than IdBlock records of one table
IdBlock == 9
\* the clock advances at most up to this day
MaxDay == 2
\* the environment (payments, store, backends, clock) changes at most
\* this many times
MaxEnv == 1

(***************************************************************************)
(* Text helpers: Python's str operations used by the code.                 *)
(***************************************************************************)
Abs(x) == IF x < 0 THEN -x ELSE x

RECURSIVE LStripCh(_, _)
\* s.lstrip(c)
LStripCh(s, c) == IF s # <<>> /\ Head(s) = c THEN LStripCh(Tail(s), c) ELSE s

RECURSIVE RStripCh(_, _)
\* s.rstrip(c)
RStripCh(s, c) ==
    IF s # <<>> /\ s[Len(s)] = c THEN RStripCh(SubSeq(s, 1, Len(s) - 1), c) ELSE s

\* s.strip(): leading and trailing blanks removed
Strip(s) == RStripCh(LStripCh(s, " "), " ")

\* a in b, for strings
Contains(a, b) ==
    \E i \in 0..(Len(b) - Len(a)) : SubSeq(b, i + 1, i + Len(a)) = a

\* s[-n:]
LastN(s, n) == IF Len(s) <= n THEN s ELSE SubSeq(s, Len(s) - n + 1, Len(s))

\* s.lstrip('0') or '0'
StripZeros(s) == IF LStripCh(s, "0") = <<>> THEN <<"0">> ELSE LStripCh(s, "0")

(***************************************************************************)
(* The external payment registry (account.payment).  The text fields and   *)
(* amounts of the payments are fixed; their state is part of the           *)
(* environment and changes under PaymentWrite.                            *)
(***************************************************************************)
PaymentStates == {"draft", "posted", "sent", "in_process"}

Payments ==
    << [amount |-> 100000, date |-> 1,
        name |-> <<"P","1">>,
        memo |-> <<"R","E","F","-","0","0","0","7","8","9","0","1","2">>,
        communication |-> <<>>, payment_reference |-> <<>>, narration |-> <<>>],
       [amount |-> 100005, date |-> 2,
        name |-> <<"P","2">>,
        memo |-> <<"7","8","9","0","1","2">>,
        communication |-> <<"5","5","5">>, payment_reference |-> <<>>,
        narration |-> <<>>],
       [amount |-> 2020, date |-> 2,
        name |-> <<"P","3">>,
        memo |-> <<>>,
        communication |-> <<>>, payment_reference |-> <<"A","B","0","0","4","2">>,
        narration |-> <<"4","2">>] >>

PaymentIds == 1..Len(Payments)

\* the Import under study (self.id)
ImportId == 1

VARIABLES
    file,       \* index into Uploads: file_data, file_name and bank_type of the Import
    state,      \* Import.state: "draft", "processed" or "matched"
    line_ids,   \* Import.line_ids: sequence of bank.import.line records, in id order
    matched_payment_ids,  \* Import.matched_payment_ids: set of bank.import.match records
    pstate,     \* the state field of each payment
    badPay,     \* payments to which the store refuses to link a Match
    libs,       \* the spreadsheet backends installed: [openpyxl, xlrd]
    today,      \* the current day (fields.Date.today()), an index into Days
    env,        \* number of changes of the environment so far
    h           \* history of the last step: the call and its outcome

vars == << file, state, line_ids, matched_payment_ids,
           pstate, badPay, libs, today, env, h >>

(***************************************************************************)
(* The default match algorithm.                                            *)
(***************************************************************************)
\* an operation rule that has the verbatim test alone
FieldMatchesVerbatim(field_value, operation_number) ==
    field_value # <<>> /\ Contains(operation_number, Strip(field_value))

\* an operation rule whose suffix test strips the zeros of the last six
\* characters with lstrip('0') or '0'
FieldMatchesSuffixOrZero(field_value, operation_number) ==
    LET clean_operation == StripZeros(Strip(operation_number))
        field_str == Strip(field_value)
        last_6_digits == LastN(field_str, 6)
    IN  /\ field_value # <<>>
        /\ \/ Contains(operation_number, field_str)
           \/ clean_operation # <<"0">> /\ Contains(clean_operation, field_str)
           \/ clean_operation = StripZeros(field_str)
           \/ /\ Len(field_str) >= 6
              /\ \/ operation_number = last_6_digits
                 \/ clean_operation = StripZeros(last_6_digits)

\* one iteration of the loop over fields_to_check
FieldMatches(field_value, operation_number) ==
    LET clean_operation == StripZeros(Strip(operation_number))
        field_str == Strip(field_value)
        last_6_digits == LastN(field_str, 6)
    IN  /\ field_value # <<>>
        /\ \/ Contains(operation_number, field_str)
           \/ clean_operation # <<"0">> /\ Contains(clean_operation, field_str)
           \/ clean_operation = StripZeros(field_str)
           \/ /\ Len(field_str) >= 6
              /\ \/ operation_number = last_6_digits
                 \/ clean_operation = LStripCh(last_6_digits, "0")

CheckOperationMatch(payment, operation_number) ==
    IF operation_number = <<>> THEN TRUE
    ELSE \/ FieldMatches(payment.name, operation_number)
         \/ FieldMatches(payment.memo, operation_number)
         \/ FieldMatches(payment.communication, operation_number)
         \/ FieldMatches(payment.payment_reference, operation_number)

ActiveStates == {"posted", "sent", "in_process"}

RECURSIVE Filter(_, _)
\* the members of sequence s that are in set S, in order
Filter(s, S) ==
    IF s = <<>> THEN <<>>
    ELSE IF Head(s) \in S THEN <<Head(s)>> \o Filter(Tail(s), S)
    ELSE Filter(Tail(s), S)

\* env['account.payment'].search(...): the payments of a set, in registry order
Search(S) == Filter([i \in PaymentIds |-> i], S)

\* tolerance = 0.01, one cent, in thousandths
tolerance == 10

(***************************************************************************)
(* abs(import_line.amount) - tolerance and abs(import_line.amount) +       *)
(* tolerance are computed in IEEE double arithmetic.  An amount of c       *)
(* thousandths is the double nearest to c / 1000, a multiple of 2^-Scale(c);*)
(* its error is FloatError(c) / (1000 * 2^Scale(c)).  Amounts are below    *)
(* 2^13, so every number here fits 32 bits.                                *)
(***************************************************************************)
RECURSIVE Pow2(_)
Pow2(n) == IF n = 0 THEN 1 ELSE 2 * Pow2(n - 1)

RECURSIVE Pow2Mod(_, _)
\* 2^n modulo m
Pow2Mod(n, m) == IF n = 0 THEN 1 % m ELSE (2 * Pow2Mod(n - 1, m)) % m

\* c / 1000 < 2^(j + 1)
Below(c, j) ==
    IF j + 1 >= 0 THEN c < 1000 * Pow2(j + 1)
    ELSE c < 1000 /\ c * Pow2(-j - 1) < 1000

\* the j with 2^j <= c / 1000 < 2^(j + 1), for c > 0
Binade(c) == CHOOSE j \in -10..13 : Below(c, j) /\ ~Below(c, j - 1)

\* doubles of the binade of c / 1000 are the multiples of 2^-Scale(c)
Scale(c) == 52 - Binade(c)

\* c * 2^Scale(c) modulo 2000: the remainder of the division by 1000 and the
\* parity of its quotient
Residue(c) == ((c % 2000) * Pow2Mod(Scale(c), 2000)) % 2000

\* the double nearest to c / 1000 is (c / 1000) + FloatError(c) / (1000 * 2^Scale(c)),
\* ties going to the even mantissa
FloatError(c) ==
    IF Residue(c) % 1000 < 500 THEN -(Residue(c) % 1000)
    ELSE IF Residue(c) % 1000 > 500 THEN 1000 - (Residue(c) % 1000)
    ELSE IF Residue(c) >= 1000 THEN 500 ELSE -500

\* the mantissa of the double nearest to c / 1000 is odd
MantissaOdd(c) ==
    (Residue(c) >= 1000) #
        (\/ Residue(c) % 1000 > 500
         \/ Residue(c) % 1000 = 500 /\ Residue(c) >= 1000)

\* c / 1000 is a power of two
IsPow2(c) ==
    IF Binade(c) >= 0 THEN c = 1000 * Pow2(Binade(c))
    ELSE c * Pow2(-Binade(c)) = 1000

\* the integer nearest to d / u, a tie going to the n that makes the mantissa
\* even, odd telling whether the mantissa is odd at n = 0
RoundHalfEven(d, u, odd) ==
    IF 2 * (d % u) < u THEN d \div u
    ELSE IF 2 * (d % u) > u THEN (d \div u) + 1
    ELSE IF odd = ((d \div u) % 2 = 1) THEN d \div u ELSE (d \div u) + 1

\* rounding of the exact sum of two doubles, which lies `part` units of
\* 1 / (1000 * 2^59) away from t / 1000: the number of doubles the result
\* lies above (below, when negative) the double nearest to t / 1000
RoundSum(t, part) ==
    IF IsPow2(t) /\ part < 0
    THEN RoundHalfEven(part, 1000 * Pow2(59 - (Scale(t) + 1)), FALSE)
    ELSE RoundHalfEven(part - FloatError(t) * Pow2(59 - Scale(t)),
                       1000 * Pow2(59 - Scale(t)), MantissaOdd(t))

\* abs(amount) + s * tolerance for s = 1 or -1 and abs(amount) = c / 1000: the
\* number of doubles the result lies above (below) the double nearest to
\* (c + s * tolerance) / 1000; 0 and 0.01 - 0.01 are exact
FloatDeviation(c, s) ==
    IF c = 0 \/ c + s * tolerance <= 0 THEN 0
    ELSE RoundSum(c + s * tolerance,
                  FloatError(c) * Pow2(59 - Scale(c)) + s * FloatError(tolerance))

\* ('amount', '>=', abs(import_line.amount) - tolerance) for a payment amount
AboveLower(amount, c) ==
    \/ amount > c - tolerance
    \/ amount = c - tolerance /\ FloatDeviation(c, -1) <= 0

\* ('amount', '<=', abs(import_line.amount) + tolerance) for a payment amount
BelowUpper(amount, c) ==
    \/ amount < c + tolerance
    \/ amount = c + tolerance /\ FloatDeviation(c, 1) >= 0

\* the payments the search domain admits
ActivePayments == {p \in PaymentIds : pstate[p] \in ActiveStates}

\* the search with ('amount', '=', abs(import_line.amount))
ExactAmount(c) == {p \in ActivePayments : Payments[p].amount = c}

\* the search with the tolerance window
NearAmount(c) ==
    {p \in ActivePayments :
        AboveLower(Payments[p].amount, c) /\ BelowUpper(Payments[p].amount, c)}

\* the first two searches of _find_matching_payments
AmountMatches(import_line) ==
    IF ExactAmount(Abs(import_line.amount)) # {}
    THEN Search(ExactAmount(Abs(import_line.amount)))
    ELSE Search(NearAmount(Abs(import_line.amount)))

\* BankImportMatch.create: raises when the record cannot be stored
MatchCreateRaises(vals) ==
    \/ vals.import_line_id = 0
    \/ vals.payment_id = 0
    \/ vals.import_id = 0
    \/ vals.payment_id \in badPay

\* the search for an existing Match of the same (import, payment, line)
ExistingMatch(ms, payment_id, line_id) ==
    {m \in ms : /\ m.import_id = ImportId
                /\ m.payment_id = payment_id
                /\ m.import_line_id = line_id}

\* the Match record stored for vals, with a fresh identifier;  pass is a
\* history field: the loop of _find_matching_payments that created the record
NewMatch(vals, id, pass) ==
    [id |-> id, import_id |-> vals.import_id,
     import_line_id |-> vals.import_line_id, payment_id |-> vals.payment_id,
     match_type |-> vals.match_type, pass |-> pass]

\* the vals of the Match that links import_line and payment_id
MatchVals(import_line, payment_id, match_type) ==
    [import_id |-> ImportId, import_line_id |-> import_line.id,
     payment_id |-> payment_id, match_type |-> match_type]

\* env['bank.import.match'].create(vals) on the store acc, in loop `pass`
CreateMatch(vals, pass, acc) ==
    [acc EXCEPT !.ms = @ \cup {NewMatch(vals, acc.seq, pass)},
                !.seq = @ + 1, !.created = @ + 1]

\* a loop body that takes the amount correspondence as sufficient
AmountStepAmountOnly(payment_id, import_line, operation_match, acc) ==
    IF ExistingMatch(acc.ms, payment_id, import_line.id) # {} THEN acc
    ELSE IF MatchCreateRaises(MatchVals(import_line, payment_id, "exact"))
    THEN [acc EXCEPT !.raised = TRUE, !.failed = TRUE]
    ELSE CreateMatch(MatchVals(import_line, payment_id,
                               IF operation_match THEN "exact" ELSE "partial"),
                     1, acc)

\* the body of the loop over amount_matches for one payment, operation_match
\* being what _check_operation_match returned; a create that raises is
\* raised again as UserError
AmountStep(payment_id, import_line, operation_match, acc) ==
    IF ~(operation_match \/ import_line.operation_number = <<>>) THEN acc
    ELSE IF ExistingMatch(acc.ms, payment_id, import_line.id) # {} THEN acc
    ELSE IF MatchCreateRaises(MatchVals(import_line, payment_id, "exact"))
    THEN [acc EXCEPT !.raised = TRUE, !.failed = TRUE]
    ELSE CreateMatch(MatchVals(import_line, payment_id,
                               IF operation_match THEN "exact" ELSE "partial"),
                     1, acc)

RECURSIVE AmountPass(_, _, _)
\* the loop over amount_matches; acc = [ms, seq, created, raised, failed]
AmountPass(pool, import_line, acc) ==
    IF pool = <<>> \/ acc.raised THEN acc
    ELSE AmountPass(Tail(pool), import_line,
                    AmountStep(Head(pool), import_line,
                               CheckOperationMatch(Payments[Head(pool)],
                                                   import_line.operation_number),
                               acc))

\* the body of the loop over all_payments for one payment: a create that
\* raises is logged and the loop goes on
OperationStep(payment_id, import_line, acc) ==
    IF ~CheckOperationMatch(Payments[payment_id], import_line.operation_number)
    THEN acc
    ELSE IF ExistingMatch(acc.ms, payment_id, import_line.id) # {} THEN acc
    ELSE IF MatchCreateRaises(MatchVals(import_line, payment_id, "partial"))
    THEN [acc EXCEPT !.failed = TRUE]
    ELSE CreateMatch(MatchVals(import_line, payment_id, "partial"), 2, acc)

RECURSIVE OperationPass(_, _, _)
\* the loop over all_payments
OperationPass(pool, import_line, acc) ==
    IF pool = <<>> THEN acc
    ELSE OperationPass(Tail(pool), import_line,
                       OperationStep(Head(pool), import_line, acc))

\* the end of _find_matching_payments, `first` being the store after the loop
\* over amount_matches
BroadenSearch(import_line, first) ==
    IF first.raised THEN first
    ELSE IF first.created = 0 /\ import_line.operation_number # <<>>
    THEN OperationPass(Search(ActivePayments), import_line, first)
    ELSE first

\* _find_matching_payments(import_line) on the store acc; created counts the
\* matches of this line only
FindMatchingPayments(import_line, acc) ==
    BroadenSearch(import_line,
                  AmountPass(AmountMatches(import_line), import_line,
                             [acc EXCEPT !.created = 0]))

RECURSIVE MatchLines(_, _)
\* the loop of action_match_payments over line_ids; stops at the first raise
MatchLines(ls, acc) ==
    IF ls = <<>> \/ acc.raised THEN acc
    ELSE MatchLines(Tail(ls), FindMatchingPayments(Head(ls), acc))

(***************************************************************************)
(* Uploaded files.  A date is [y, m, d]; NoDate stands for None.  A field  *)
(* of a text line and a cell of a sheet carry the text and what Python's   *)
(* parsers make of it:                                                     *)
(*   s     the text, str(value)                                            *)
(*   t     the Python type of a cell value: "none", "str", "num", "date"   *)
(*   pad   the text has blanks around it                                   *)
(*   fmt   the form of the date the text spells: "d/m/Y", "Y.m.d", "Y-m-d", *)
(*         "d-m-Y", "m/d/Y", "d-m" (no year), "" when it spells none       *)
(*   date  the date spelled (y = 0 in form "d-m"); of a "date" cell the    *)
(*         value itself, of a "num" cell the date of the serial number     *)
(*   isnum float() accepts the text once separators are removed            *)
(*   num   the value float() returns, in thousandths                       *)
(*   w     the header markers the lower-cased or upper-cased text contains *)
(***************************************************************************)
NoDate == [y |-> 0, m |-> 0, d |-> 0]

Cell(t, s, fmt, date, isnum, num, w) ==
    [t |-> t, s |-> s, pad |-> FALSE, fmt |-> fmt, date |-> date,
     isnum |-> isnum, num |-> num, w |-> w]

Empty == Cell("none", <<>>, "", NoDate, FALSE, 0, {})
Txt(s) == Cell("str", s, "", NoDate, FALSE, 0, {})
Hdr(w) == Cell("str", <<"h">>, "", NoDate, FALSE, 0, w)
DateStr(fmt, dt) == Cell("str", <<"d">>, fmt, dt, FALSE, 0, {})
NumStr(v) == Cell("str", <<"n">>, "", NoDate, TRUE, v, {})
Num(v) == Cell("num", <<"n">>, "", NoDate, TRUE, v, {})
Padded(c) == [c EXCEPT !.pad = TRUE]

\* datetime.strptime over a list of formats: the date, NoDate when all raise
StrpTime(c, formats) == IF c.fmt \in formats THEN c.date ELSE NoDate

LowerCh(c) ==
    CASE c = "T" -> "t" [] c = "X" -> "x" [] c = "L" -> "l" [] c = "S" -> "s"
      [] OTHER -> c

\* s.lower()
Lower(s) == [i \in DOMAIN s |-> LowerCh(s[i])]

\* s.endswith(suffix)
EndsWith(s, suffix) == Len(s) >= Len(suffix) /\ LastN(s, Len(suffix)) = suffix

\* _compute_file_type
ComputeFileType(file_name) ==
    IF file_name # <<>>
    THEN IF EndsWith(Lower(file_name), <<".","t","x","t">>) THEN "txt"
         ELSE IF \/ EndsWith(Lower(file_name), <<".","x","l","s">>)
                 \/ EndsWith(Lower(file_name), <<".","x","l","s","x">>) THEN "excel"
         ELSE "txt"
    ELSE "txt"

\* the value a Float field with digits=(16, 2) keeps: rounded to the cent
RoundCents(v) ==
    IF v >= 0 THEN ((v + 5) \div 10) * 10 ELSE -(((-v + 5) \div 10) * 10)

\* env['bank.import.line'].create(vals): the stored Transaction; original_line
\* is kept as the cells it was printed from
NewLine(vals, id) ==
    [id |-> id, import_id |-> vals.import_id,
     transaction_date |-> vals.transaction_date,
     description |-> vals.description, amount |-> RoundCents(vals.amount),
     operation_number |-> vals.operation_number,
     original_line |-> vals.original_line]

(***************************************************************************)
(* The text parser.  A parser works on acc = [lines, seq]: the Transactions*)
(* created so far and the next identifier.                                 *)
(***************************************************************************)
\* _is_transaction_line: fields are stripped of quotes only
IsTransactionLine(line) ==
    /\ Len(line.fields) >= 6
    /\ ~line.fields[1].pad
    /\ StrpTime(line.fields[1], {"d/m/Y"}) # NoDate

\* env['bank.import.line'].create(vals) on acc = [lines, seq, ...]
CreateLine(vals, acc) ==
    [acc EXCEPT !.lines = Append(@, NewLine(vals, acc.seq)), !.seq = @ + 1]

\* a truncation that is applied whatever the bank
TruncateAnyBank(raw, bank_type) == IF Len(raw) >= 6 THEN LastN(raw, 6) ELSE raw

\* the operation number of a text line: for bcp its last 6 characters
TxtOperationNumber(raw, bank_type) ==
    IF bank_type = "bcp" /\ raw # <<>> /\ Len(raw) >= 6 THEN LastN(raw, 6) ELSE raw

\* _parse_txt_transaction: fields are stripped of quotes and blanks; a
\* strptime that raises is logged and the line dropped
ParseTxtTransaction(line, bank_type, acc) ==
    IF Len(line.fields) >= 6 /\ StrpTime(line.fields[1], {"d/m/Y"}) # NoDate
    THEN CreateLine([import_id |-> ImportId,
                     transaction_date |-> StrpTime(line.fields[1], {"d/m/Y"}),
                     description |-> line.fields[3].s,
                     amount |-> IF line.fields[4].isnum THEN line.fields[4].num ELSE 0,
                     operation_number |->
                         TxtOperationNumber(line.fields[6].s, bank_type),
                     original_line |-> line.fields],
                    acc)
    ELSE acc

RECURSIVE ParseTxtLines(_, _, _)
\* the second loop of _process_txt_file
ParseTxtLines(ls, bank_type, acc) ==
    IF ls = <<>> THEN acc
    ELSE ParseTxtLines(Tail(ls), bank_type, ParseTxtTransaction(Head(ls), bank_type, acc))

\* a filter that keeps every quoted line
QuotedLine(line) == ~line.blank /\ line.quote

\* the condition of the first loop of _process_txt_file
IsCandidate(line) == ~line.blank /\ line.quote /\ IsTransactionLine(line)

RECURSIVE TransactionLines(_)
\* the first loop of _process_txt_file
TransactionLines(ls) ==
    IF ls = <<>> THEN <<>>
    ELSE IF IsCandidate(Head(ls)) THEN <<Head(ls)>> \o TransactionLines(Tail(ls))
    ELSE TransactionLines(Tail(ls))

\* what a parser returns: the store and the error raised ("" for none)
Outcome(acc, err) == [lines |-> acc.lines, seq |-> acc.seq, err |-> err]

\* _process_txt_file
ProcessTxtFile(data, bank_type, acc) ==
    IF ~data.utf8 THEN Outcome(acc, "decode")
    ELSE Outcome(ParseTxtLines(TransactionLines(data.text), bank_type, acc), "")

(***************************************************************************)
(* The spreadsheet parsers.  A sheet is a sequence of rows, a row a        *)
(* sequence of cells; column indices are 0-based as in the code, so        *)
(* column i of a row is row[i + 1].                                        *)
(***************************************************************************)
\* bool(value) of a cell value
Truthy(c) ==
    \/ c.t = "str" /\ c.s # <<>>
    \/ c.t = "num" /\ c.num # 0
    \/ c.t = "date"

\* the words of str(cell.value) when the backend yields it for a header test
CellWords(c, parser_type) ==
    IF parser_type = "openpyxl" THEN (IF Truthy(c) THEN c.w ELSE {}) ELSE c.w

DateWords == {"fecha", "date", "dia"}
DescriptionWords ==
    {"descripcion", "concepto", "detalle", "description", "memo", "glosa", "trans"}
CargoWords == {"cargo", "debe", "debito"}
AbonoWords == {"abono", "haber", "credito"}
OperationWords == {"documento", "nro", "numero", "referencia", "reference", "operation"}

\* the mapping with key k set to v (mapping[k] = v)
SetKey(mapping, k, v) ==
    [r \in DOMAIN mapping \cup {k} |-> IF r = k THEN v ELSE mapping[r]]

EmptyMapping == [r \in {} |-> 0]

RECURSIVE MapColumnsReversed(_, _, _)
\* a mapping loop that tests the roles in the opposite order
MapColumnsReversed(headers, i, mapping) ==
    IF i >= Len(headers) THEN mapping
    ELSE LET header_lower == headers[i + 1]
             next ==
               IF header_lower \cap OperationWords # {}
               THEN SetKey(mapping, "operation", i)
               ELSE IF header_lower \cap AbonoWords # {} THEN SetKey(mapping, "abono", i)
               ELSE IF header_lower \cap CargoWords # {} THEN SetKey(mapping, "cargo", i)
               ELSE IF header_lower \cap DescriptionWords # {}
                    THEN SetKey(mapping, "description", i)
               ELSE IF header_lower \cap DateWords # {} THEN SetKey(mapping, "date", i)
               ELSE mapping
         IN MapColumnsReversed(headers, i + 1, next)

RECURSIVE MapColumns(_, _, _)
\* the loop of _get_excel_column_mapping from column i (0-based) on
MapColumns(headers, i, mapping) ==
    IF i >= Len(headers) THEN mapping
    ELSE LET header_lower == headers[i + 1]
             next ==
               IF header_lower \cap DateWords # {} THEN SetKey(mapping, "date", i)
               ELSE IF header_lower \cap DescriptionWords # {}
                    THEN SetKey(mapping, "description", i)
               ELSE IF header_lower \cap CargoWords # {} THEN SetKey(mapping, "cargo", i)
               ELSE IF header_lower \cap AbonoWords # {} THEN SetKey(mapping, "abono", i)
               ELSE IF header_lower \cap OperationWords # {}
                    THEN SetKey(mapping, "operation", i)
               ELSE mapping
         IN MapColumns(headers, i + 1, next)

\* _get_excel_column_mapping; a header is the set of keywords it contains
GetExcelColumnMapping(headers) == MapColumns(headers, 0, EmptyMapping)

\* get_value(i) of _create_excel_import_line
GetValue(row, i, parser_type) ==
    IF i < Len(row)
    THEN (IF parser_type = "openpyxl" /\ row[i + 1].t = "none" THEN Txt(<<>>)
          ELSE row[i + 1])
    ELSE Txt(<<>>)

\* get_value(col_mapping[key]) when key is in col_mapping; when it is not,
\* the code leaves the default in place, which is what the falsy '' yields
Column(row, col_mapping, key, parser_type) ==
    IF key \in DOMAIN col_mapping THEN GetValue(row, col_mapping[key], parser_type)
    ELSE Txt(<<>>)

\* the date of _create_excel_import_line from date_value
ExcelDate(date_value, parser_type) ==
    IF ~Truthy(date_value) THEN NoDate
    ELSE IF date_value.t = "date" THEN date_value.date
    ELSE IF date_value.t = "str"
    THEN StrpTime(date_value, {"Y.m.d", "d/m/Y", "Y-m-d", "d-m-Y", "m/d/Y"})
    ELSE IF date_value.t = "num" /\ parser_type = "xlrd" THEN date_value.date
    ELSE NoDate

\* str(value) if value else ''
ExcelText(value) == IF Truthy(value) THEN value.s ELSE <<>>

\* float(...) of a cargo or abono value succeeds
ExcelNumber(value) == Truthy(value) /\ Strip(value.s) # <<>> /\ value.isnum

\* amount after the cargo block
CargoAmount(cargo_value) ==
    IF ExcelNumber(cargo_value) THEN -Abs(cargo_value.num) ELSE 0

\* amount after the abono block, read only when amount == 0.0
AbonoAmount(abono_value, amount) ==
    IF amount = 0 /\ ExcelNumber(abono_value) THEN abono_value.num ELSE amount

\* a creation that leaves an unresolved date as it is
ExcelLineNoToday(row, transaction_date, description, amount, operation_number, day, acc) ==
    IF transaction_date # NoDate \/ amount # 0 \/ operation_number # <<>>
    THEN CreateLine([import_id |-> ImportId, transaction_date |-> transaction_date,
                     description |-> description, amount |-> amount,
                     operation_number |-> operation_number,
                     original_line |-> row], acc)
    ELSE acc

\* the end of _create_excel_import_line: the line is created when there is a
\* date, a non-zero amount or an operation number; original_line is the row
ExcelLine(row, transaction_date, description, amount, operation_number, day, acc) ==
    IF transaction_date # NoDate \/ amount # 0 \/ operation_number # <<>>
    THEN CreateLine([import_id |-> ImportId,
                     transaction_date |->
                         IF transaction_date # NoDate THEN transaction_date ELSE day,
                     description |-> description, amount |-> amount,
                     operation_number |-> operation_number,
                     original_line |-> row], acc)
    ELSE acc

\* _create_excel_import_line
CreateExcelImportLine(row, col_mapping, parser_type, day, acc) ==
    ExcelLine(row,
              ExcelDate(Column(row, col_mapping, "date", parser_type), parser_type),
              ExcelText(Column(row, col_mapping, "description", parser_type)),
              AbonoAmount(Column(row, col_mapping, "abono", parser_type),
                          CargoAmount(Column(row, col_mapping, "cargo", parser_type))),
              ExcelText(Column(row, col_mapping, "operation", parser_type)),
              day, acc)

\* the rows the header scan looks at (1-based): range(1, min(10, max_row + 1))
\* with openpyxl, range(min(10, nrows)) with xlrd
HeaderScan(sheet, parser_type) ==
    IF parser_type = "openpyxl"
    THEN 1..(IF 10 < Len(sheet) + 1 THEN 10 ELSE Len(sheet) + 1) - 1
    ELSE 1..(IF 10 < Len(sheet) THEN 10 ELSE Len(sheet))

IsHeaderRow(row, parser_type) ==
    \E j \in DOMAIN row : "fecha" \in CellWords(row[j], parser_type)

\* the header row found (1-based), 0 when the scan finds none
HeaderRow(sheet, parser_type) ==
    LET found == {r \in HeaderScan(sheet, parser_type) :
                     IsHeaderRow(sheet[r], parser_type)}
    IN IF found = {} THEN 0 ELSE CHOOSE r \in found : \A q \in found : r <= q

\* any(cell.value for cell in row)
AnyValue(row) == \E j \in DOMAIN row : Truthy(row[j])

\* lines_created += 1
Counted(acc) == [acc EXCEPT !.lines_created = @ + 1]

RECURSIVE ExcelRows(_, _, _, _, _, _)
\* the data loop of _parse_excel_openpyxl and _parse_excel_xlrd from row r on;
\* acc = [lines, seq, lines_created]
ExcelRows(sheet, r, col_mapping, parser_type, day, acc) ==
    IF r > Len(sheet) THEN acc
    ELSE ExcelRows(sheet, r + 1, col_mapping, parser_type, day,
                   IF AnyValue(sheet[r])
                   THEN Counted(CreateExcelImportLine(sheet[r], col_mapping,
                                                      parser_type, day, acc))
                   ELSE acc)

\* the store a data loop starts from
Counting(acc) == [lines |-> acc.lines, seq |-> acc.seq, lines_created |-> 0]

\* the check after a data loop: an error when lines_created is 0
RowsOutcome(done, err) == Outcome(done, IF done.lines_created = 0 THEN err ELSE "")

\* the headers of the header row
ExcelHeaders(row, parser_type) == [j \in DOMAIN row |-> CellWords(row[j], parser_type)]

\* the generic parser once col_mapping is known
ParseExcelMapped(sheet, header_row, col_mapping, parser_type, day, acc) ==
    IF DOMAIN col_mapping = {} THEN Outcome(acc, "no mapping")
    ELSE RowsOutcome(ExcelRows(sheet, header_row + 1, col_mapping, parser_type, day,
                               Counting(acc)),
                     "no rows")

\* the generic parser once the header scan is over
ParseExcelFrom(sheet, header_row, parser_type, day, acc) ==
    IF header_row = 0 THEN Outcome(acc, "no header")
    ELSE ParseExcelMapped(sheet, header_row,
                          GetExcelColumnMapping(ExcelHeaders(sheet[header_row],
                                                             parser_type)),
                          parser_type, day, acc)

\* the generic path of _parse_excel_openpyxl and _parse_excel_xlrd
ParseExcelGeneric(sheet, parser_type, day, acc) ==
    ParseExcelFrom(sheet, HeaderRow(sheet, parser_type), parser_type, day, acc)

(***************************************************************************)
(* The Continental path.                                                   *)
(***************************************************************************)
IsLeap(y) == (y % 4 = 0 /\ y % 100 # 0) \/ y % 400 = 0

DaysInMonth(y, m) ==
    IF m = 2 THEN (IF IsLeap(y) THEN 29 ELSE 28)
    ELSE IF m \in {4, 6, 9, 11} THEN 30 ELSE 31

\* a year that is never rolled back
CurrentYear(month, now) == now.y

\* the year a DD-MM date gets at day `now`
ContinentalYear(month, now) == IF now.m <= 2 /\ month >= 11 THEN now.y - 1 ELSE now.y

\* datetime(current_year, month, day).date(), NoDate when it raises
MakeDate(y, m, d) ==
    IF d <= DaysInMonth(y, m) THEN [y |-> y, m |-> m, d |-> d] ELSE NoDate

\* _parse_continental_date of str(value).strip(), at day `now`
ParseContinentalDate(c, now) ==
    IF ~Truthy(c) \/ Strip(c.s) = <<>> THEN NoDate
    ELSE IF /\ c.t = "str" /\ c.fmt = "d-m"
            /\ 1 <= c.date.d /\ c.date.d <= 31 /\ 1 <= c.date.m /\ c.date.m <= 12
    THEN MakeDate(ContinentalYear(c.date.m, now), c.date.m, c.date.d)
    ELSE IF c.t = "str" THEN StrpTime(c, {"d/m/Y", "d-m-Y", "Y-m-d"})
    ELSE NoDate

\* _parse_continental_amount of monto_str
ParseContinentalAmount(c) == IF Truthy(c) /\ c.isnum THEN c.num ELSE 0

\* dict.get(key) as a condition: the key is present and its value is not 0
Get(mapping, k) == k \in DOMAIN mapping /\ mapping[k] # 0

\* the header scan of the Continental path: range(1, min(5, max_row + 1))
ContinentalScan(sheet) == 1..(IF 5 < Len(sheet) + 1 THEN 5 ELSE Len(sheet) + 1) - 1

\* the markers of the joined, upper-cased text of a row
RowWords(row) == UNION {IF Truthy(row[j]) THEN row[j].w ELSE {} : j \in DOMAIN row}

ContinentalHeaderRow(sheet) ==
    LET found == {r \in ContinentalScan(sheet) :
                     "FECHA OPER" \in RowWords(sheet[r]) /\ "CARGO" \in RowWords(sheet[r])}
    IN IF found = {} THEN 0 ELSE CHOOSE r \in found : \A q \in found : r <= q

RECURSIVE ContinentalColumns(_, _, _)
\* the column mapping loop of _parse_continental_excel_openpyxl
ContinentalColumns(headers, i, mapping) ==
    IF i >= Len(headers) THEN mapping
    ELSE LET header_str == headers[i + 1]
             next ==
               IF "FECHA OPER" \in header_str THEN SetKey(mapping, "fecha", i)
               ELSE IF "DESCRIPCI" \in header_str THEN SetKey(mapping, "descripcion", i)
               ELSE IF "N OPER" \in header_str THEN SetKey(mapping, "operacion", i)
               ELSE IF "CARGO/ABONO" \in header_str THEN SetKey(mapping, "monto", i)
               ELSE mapping
         IN ContinentalColumns(headers, i + 1, next)

\* row[col_mapping[key]].value when col_mapping.get(key) is truthy, else ''
ContinentalValue(row, col_mapping, key) ==
    IF Get(col_mapping, key) THEN row[col_mapping[key] + 1] ELSE Txt(<<>>)

\* the end of a data row of _parse_continental_excel_openpyxl; original_line
\* is made of the date text, the description, the amount text and the
\* operation number
ContinentalLine(fecha, monto, transaction_date, description, amount, operation_number, day, acc) ==
    IF /\ (transaction_date # NoDate \/ amount # 0 \/ operation_number # <<>>)
       /\ description # <<>>
    THEN Counted(CreateLine([import_id |-> ImportId,
                             transaction_date |->
                                 IF transaction_date # NoDate THEN transaction_date
                                 ELSE day,
                             description |-> description, amount |-> amount,
                             operation_number |-> operation_number,
                             original_line |->
                                 << fecha, Txt(description), monto,
                                    Txt(operation_number) >>], acc))
    ELSE acc

\* str(value).strip() if value else ''
ContinentalText(value) == IF Truthy(value) THEN Strip(value.s) ELSE <<>>

\* one data row of _parse_continental_excel_openpyxl
ContinentalRow(row, col_mapping, day, acc) ==
    IF "SALDO ANTERIOR" \in
           (IF Truthy(ContinentalValue(row, col_mapping, "descripcion"))
            THEN ContinentalValue(row, col_mapping, "descripcion").w ELSE {})
    THEN acc
    ELSE ContinentalLine(
             ContinentalValue(row, col_mapping, "fecha"),
             ContinentalValue(row, col_mapping, "monto"),
             ParseContinentalDate(ContinentalValue(row, col_mapping, "fecha"), day),
             ContinentalText(ContinentalValue(row, col_mapping, "descripcion")),
             ParseContinentalAmount(ContinentalValue(row, col_mapping, "monto")),
             ContinentalText(ContinentalValue(row, col_mapping, "operacion")),
             day, acc)

RECURSIVE ContinentalRows(_, _, _, _, _)
\* the data loop of _parse_continental_excel_openpyxl from row r on
ContinentalRows(sheet, r, col_mapping, day, acc) ==
    IF r > Len(sheet) THEN acc
    ELSE ContinentalRows(sheet, r + 1, col_mapping, day,
                         IF AnyValue(sheet[r])
                         THEN ContinentalRow(sheet[r], col_mapping, day, acc)
                         ELSE acc)

\* the headers of the Continental header row
ContinentalHeaders(row) == [j \in DOMAIN row |-> IF Truthy(row[j]) THEN row[j].w ELSE {}]

\* the Continental parser once col_mapping is known
ParseContinentalMapped(sheet, header_row, col_mapping, day, acc) ==
    IF ~({"fecha", "monto"} \subseteq DOMAIN col_mapping)
    THEN Outcome(acc, "no continental columns")
    ELSE RowsOutcome(ContinentalRows(sheet, header_row + 1, col_mapping, day,
                                     Counting(acc)),
                     "no continental rows")

\* the Continental parser once the header scan is over
ParseContinentalFrom(sheet, header_row, day, acc) ==
    IF header_row = 0 THEN Outcome(acc, "no continental header")
    ELSE ParseContinentalMapped(sheet, header_row,
                                ContinentalColumns(ContinentalHeaders(sheet[header_row]),
                                                   0, EmptyMapping),
                                day, acc)

\* _parse_continental_excel_openpyxl
ParseContinentalExcelOpenpyxl(sheet, day, acc) ==
    ParseContinentalFrom(sheet, ContinentalHeaderRow(sheet), day, acc)

(***************************************************************************)
(* _process_excel_file and action_process_file.                            *)
(***************************************************************************)
\* the attempt with openpyxl
OpenpyxlAttempt(data, bank_type, day, acc) ==
    IF ~data.zip THEN Outcome(acc, "not a zip file")
    ELSE IF Len(data.sheet) < 2 THEN Outcome(acc, "empty sheet")
    ELSE IF bank_type = "continental"
    THEN ParseContinentalExcelOpenpyxl(data.sheet, day, acc)
    ELSE ParseExcelGeneric(data.sheet, "openpyxl", day, acc)

\* the attempt with xlrd; _parse_continental_excel_xlrd is not defined
\* anywhere, so the call raises AttributeError
XlrdAttempt(data, bank_type, day, acc) ==
    IF ~data.xls THEN Outcome(acc, "xlrd cannot open")
    ELSE IF Len(data.sheet) < 2 THEN Outcome(acc, "empty sheet")
    ELSE IF bank_type = "continental" THEN Outcome(acc, "AttributeError")
    ELSE ParseExcelGeneric(data.sheet, "xlrd", day, acc)

\* what _process_excel_file ends with: the store, the error raised and the
\* backends attempted, in order
Tried(r, err, tried) == [lines |-> r.lines, seq |-> r.seq, err |-> err, tried |-> tried]

\* attempts in which xlrd, when installed, is tried whatever openpyxl did
ExcelAttemptsBoth(backends, first, second) ==
    IF backends.openpyxl /\ first.err # "not a zip file" /\ ~backends.xlrd
    THEN Tried(first, IF first.err = "" THEN "" ELSE "excel error", <<"openpyxl">>)
    ELSE IF backends.xlrd
    THEN Tried(second, IF second.err = "" THEN "" ELSE "excel not processed",
               IF backends.openpyxl THEN <<"openpyxl", "xlrd">> ELSE <<"xlrd">>)
    ELSE Tried(first, "excel not processed", <<"openpyxl">>)

\* _process_excel_file after the availability check; `first` is the attempt
\* with openpyxl and `second` the one with xlrd (an attempt that fails has
\* created no line, so both start from the same store)
ExcelAttempts(backends, first, second) ==
    IF backends.openpyxl /\ first.err = "" THEN Tried(first, "", <<"openpyxl">>)
    ELSE IF backends.openpyxl /\ first.err # "not a zip file" /\ ~backends.xlrd
    THEN Tried(first, "excel error", <<"openpyxl">>)
    ELSE IF backends.xlrd
    THEN Tried(second, IF second.err = "" THEN "" ELSE "excel not processed",
               IF backends.openpyxl THEN <<"openpyxl", "xlrd">> ELSE <<"xlrd">>)
    ELSE Tried(first, "excel not processed", <<"openpyxl">>)

\* _process_excel_file
ProcessExcelFile(data, bank_type, backends, day, acc) ==
    IF ~backends.openpyxl /\ ~backends.xlrd THEN Tried(acc, "no backend", <<>>)
    ELSE ExcelAttempts(backends, OpenpyxlAttempt(data, bank_type, day, acc),
                       XlrdAttempt(data, bank_type, day, acc))

\* an unlink that leaves the Transactions in place
KeepLines(ls) == ls

\* line_ids.unlink(): what is left of the Transactions
UnlinkLines(ls) == <<>>

\* a check that lets an empty extraction pass
NoCheckExtracted(r) == r

\* the check of action_process_file after the parser returned r
CheckExtracted(r) ==
    IF r.err = "" /\ Len(r.lines) = 0 THEN [r EXCEPT !.err = "no data"] ELSE r

\* the parser action_process_file calls for file_type
ParseFile(upload, backends, day, acc) ==
    IF ComputeFileType(upload.file_name) = "txt"
    THEN Tried(ProcessTxtFile(upload.data, upload.bank_type, acc),
               ProcessTxtFile(upload.data, upload.bank_type, acc).err, <<>>)
    ELSE ProcessExcelFile(upload.data, upload.bank_type, backends, day, acc)

\* the body of action_process_file after line_ids.unlink(), which left the
\* Transactions `kept`: [lines, seq, err, tried]
ProcessFile(upload, backends, day, kept, seq) ==
    CheckExtracted(ParseFile(upload, backends, day, [lines |-> kept, seq |-> seq]))

(***************************************************************************)
(* The advanced match of the wizard.  wiz = [date_from, date_to,           *)
(* amount_tolerance, search_in_communication, search_in_reference,         *)
(* search_in_narration]; a date of 0 is "not set".                         *)
(***************************************************************************)
(***************************************************************************)
(* _amounts_match computes abs(import_amount) * (amount_tolerance / 100.0) *)
(* and abs(abs(import_amount) - payment_amount) in IEEE double arithmetic. *)
(* With amounts of c and q thousandths and a percentage t, the rounding    *)
(* errors (below 10^-11) decide the comparison only when                   *)
(* 100 * |c - q| = c * t, the payment lying on the bound.  There, for       *)
(* amounts below 2^13 and whole percentages up to 50, the difference is    *)
(* exact and the product is rounded; the comparison is made in units of    *)
(* 1 / (10^6 * 2^Scale(c)), integer part and fraction apart, so that every *)
(* number fits 32 bits.                                                    *)
(***************************************************************************)
\* the error of |fl(c / 1000) - fl(q / 1000)| against |c - q| / 1000, in units
\* of 1 / (1000 * 2^S)
DiffError(c, q, S) ==
    (IF q > c THEN 1 ELSE -1)
        * (FloatError(q) * Pow2(S - Scale(q)) - FloatError(c) * Pow2(S - Scale(c)))

\* the error of fl(t / 100) enters the product as
\* c * FloatError(10 * t) / 2^RateShift(c, t)
RateShift(c, t) == Binade(c) - Binade(10 * t)

\* c * FloatError(10 * t) / 2^k: its integer part int and the numerator num of
\* its fraction over 2^k
RateTerm(c, t, k) ==
    IF k <= 0
    THEN [int |-> c * FloatError(10 * t) * Pow2(-k), num |-> 0, k |-> 0]
    ELSE [int |-> FloatError(10 * t) * (c \div Pow2(k)),
          num |-> FloatError(10 * t) * (c % Pow2(k)), k |-> k]

\* half the gap between the difference and the double below it is
\* 10^6 / 2^GapShift(c, q)
GapShift(c, q) ==
    Scale(Abs(c - q)) - Scale(c) + 1
        + (IF IsPow2(Abs(c - q)) /\ DiffError(c, q, Scale(c) + 1) <= 0 THEN 1 ELSE 0)

\* the exact product less the difference plus half the gap, the product of
\* the two errors left out: integer part int and fraction frac / 2^K
ToleranceExcess(c, q, t, rate, k5, K) ==
    LET F == rate.num * Pow2(K - rate.k) + (1000000 % Pow2(k5)) * Pow2(K - k5)
    IN [int |-> rate.int + 10 * t * FloatError(c)
                    - 500 * DiffError(c, q, Scale(c) + 1)
                    + (1000000 \div Pow2(k5)) + (F \div Pow2(K)),
        frac |-> F % Pow2(K)]

\* the mantissa of the difference is even, num being
\* DiffError(c, q, Scale(Abs(c - q)))
DifferenceEven(c, q, num) ==
    IF IsPow2(Abs(c - q)) /\ num < 0 THEN ((-2 * num) \div 1000) % 2 = 0
    ELSE MantissaOdd(Abs(c - q))
             = (((num - FloatError(Abs(c - q))) \div 1000) % 2 = 1)

\* difference <= tolerance for a payment on the bound: the exact product is
\* above the middle of the gap below the difference, or on it when the
\* mantissa of the difference is even
WithinAtBound(c, q, t, excess) ==
    \/ excess.int > 0
    \/ excess.int = 0 /\ excess.frac > 0
    \/ /\ excess.int = 0 /\ excess.frac = 0
       /\ \/ FloatError(c) * FloatError(10 * t) > 0
          \/ /\ FloatError(c) * FloatError(10 * t) = 0
             /\ DifferenceEven(c, q, DiffError(c, q, Scale(Abs(c - q))))

\* _amounts_match: amount_tolerance is a percentage
AmountsMatch(wiz, import_amount, payment_amount) ==
    IF wiz.amount_tolerance = 0 THEN Abs(import_amount) = payment_amount
    ELSE IF import_amount = 0 THEN payment_amount = 0
    ELSE IF 100 * Abs(Abs(import_amount) - payment_amount)
                # Abs(import_amount) * wiz.amount_tolerance
    THEN 100 * Abs(Abs(import_amount) - payment_amount)
             < Abs(import_amount) * wiz.amount_tolerance
    ELSE WithinAtBound(Abs(import_amount), payment_amount, wiz.amount_tolerance,
             ToleranceExcess(Abs(import_amount), payment_amount, wiz.amount_tolerance,
                 RateTerm(Abs(import_amount), wiz.amount_tolerance,
                          RateShift(Abs(import_amount), wiz.amount_tolerance)),
                 GapShift(Abs(import_amount), payment_amount),
                 IF RateShift(Abs(import_amount), wiz.amount_tolerance)
                        > GapShift(Abs(import_amount), payment_amount)
                 THEN RateShift(Abs(import_amount), wiz.amount_tolerance)
                 ELSE GapShift(Abs(import_amount), payment_amount)))

\* _operation_number_matches
OperationNumberMatches(wiz, operation_number, payment) ==
    \/ /\ wiz.search_in_reference /\ payment.name # <<>>
       /\ Contains(operation_number, payment.name)
    \/ /\ wiz.search_in_communication /\ payment.communication # <<>>
       /\ Contains(operation_number, payment.communication)
    \/ /\ wiz.search_in_narration /\ payment.memo # <<>>
       /\ Contains(operation_number, payment.memo)
    \/ /\ wiz.search_in_narration /\ payment.narration # <<>>
       /\ Contains(operation_number, payment.narration)

\* _calculate_match_score
CalculateMatchScore(wiz, import_line, payment) ==
    (IF AmountsMatch(wiz, import_line.amount, payment.amount) THEN 50 ELSE 0)
    + (IF /\ import_line.operation_number # <<>>
          /\ OperationNumberMatches(wiz, import_line.operation_number, payment)
       THEN 50 ELSE 0)

\* the payments the wizard searches: posted or sent, inside the date range
AdvancedPayments(wiz) ==
    Search({p \in PaymentIds :
              /\ pstate[p] \in {"posted", "sent"}
              /\ wiz.date_from # 0 => Payments[p].date >= wiz.date_from
              /\ wiz.date_to # 0 => Payments[p].date <= wiz.date_to})

\* the body of the loop of _find_advanced_matches for one payment
AdvancedStep(payment_id, import_line, match_score, acc) ==
    IF match_score <= 0 THEN acc
    ELSE IF MatchCreateRaises(MatchVals(import_line, payment_id, "exact"))
    THEN [acc EXCEPT !.raised = TRUE, !.failed = TRUE]
    ELSE CreateMatch(MatchVals(import_line, payment_id,
                               IF match_score >= 100 THEN "exact" ELSE "partial"),
                     0, acc)

RECURSIVE FindAdvancedMatches(_, _, _, _)
\* _find_advanced_matches: a create that raises ends the whole action
FindAdvancedMatches(wiz, import_line, payments, acc) ==
    IF payments = <<>> \/ acc.raised THEN acc
    ELSE FindAdvancedMatches(wiz, import_line, Tail(payments),
             AdvancedStep(Head(payments), import_line,
                          CalculateMatchScore(wiz, import_line, Payments[Head(payments)]),
                          acc))

RECURSIVE AdvancedLines(_, _, _, _)
\* the loop of action_advanced_match over line_ids; created sums matches_found
AdvancedLines(wiz, ls, payments, acc) ==
    IF ls = <<>> \/ acc.raised THEN acc
    ELSE AdvancedLines(wiz, Tail(ls), payments,
                       FindAdvancedMatches(wiz, Head(ls), payments, acc))

\* unlinks that leave all Matches, the exact ones or the partial ones in place
KeepMatches(ms) == ms

KeepExactMatches(ms) == {m \in ms : m.match_type = "exact"}

KeepPartialMatches(ms) == {m \in ms : m.match_type = "partial"}

\* matched_payment_ids.unlink(): what is left of the Match set
UnlinkMatches(ms) == {}

\* a store without the cascade: the Matches outlive their Transactions
NoCascade(ms, removed) == ms

\* line_ids.unlink(): the Matches left, import_line_id being ondelete='cascade'
CascadeMatches(ms, removed) == {m \in ms : m.import_line_id \notin removed}

(***************************************************************************)
(* The uploads the model draws from: file_name, bank_type and file_data.   *)
(***************************************************************************)
D(y, m, d) == [y |-> y, m |-> m, d |-> d]

NoData == [present |-> FALSE, utf8 |-> FALSE, text |-> <<>>,
           zip |-> FALSE, xls |-> FALSE, sheet |-> <<>>]

TextData(text) == [present |-> TRUE, utf8 |-> TRUE, text |-> text,
                   zip |-> FALSE, xls |-> FALSE, sheet |-> <<>>]

\* a workbook: binary content that openpyxl (zip) or xlrd (xls) opens
BookData(zip, xls, sheet) == [present |-> TRUE, utf8 |-> FALSE, text |-> <<>>,
                              zip |-> zip, xls |-> xls, sheet |-> sheet]

TextLine(fields) == [blank |-> FALSE, quote |-> TRUE, fields |-> fields]
NoiseLine == [blank |-> FALSE, quote |-> FALSE, fields |-> <<Txt(<<"x">>)>>]
BlankLine == [blank |-> TRUE, quote |-> FALSE, fields |-> <<Txt(<<>>)>>]

StatementText ==
    << NoiseLine,
       TextLine(<< DateStr("d/m/Y", D(2025, 1, 5)), Txt(<<>>), Txt(<<"a">>),
                   NumStr(-100000), Txt(<<>>),
                   Txt(<<"0","0","1","7","8","9","0","1","2">>) >>),
       BlankLine,
       TextLine(<< DateStr("d/m/Y", D(2025, 1, 6)), Txt(<<>>), Txt(<<"b">>),
                   NumStr(2020), Txt(<<>>), Txt(<<>>) >>),
       TextLine(<< DateStr("d/m/Y", D(2025, 1, 7)), Txt(<<>>), Txt(<<"c">>),
                   NumStr(100004), Txt(<<>>), Txt(<<"5","5","5">>) >>),
       TextLine(<< Padded(DateStr("d/m/Y", D(2025, 1, 8))), Txt(<<>>), Txt(<<"e">>),
                   NumStr(1000), Txt(<<>>), Txt(<<"9">>) >>),
       TextLine(<< DateStr("d/m/Y", D(2025, 1, 9)), Txt(<<>>), Txt(<<"f">>) >>) >>

\* a statement whose lines correspond to no payment
OtherText ==
    << TextLine(<< DateStr("d/m/Y", D(2025, 1, 5)), Txt(<<>>), Txt(<<"a">>),
                   NumStr(-100000), Txt(<<>>),
                   Txt(<<"0","0","1","7","8","9","0","1","2">>) >>),
       TextLine(<< DateStr("d/m/Y", D(2025, 1, 6)), Txt(<<>>), Txt(<<"g">>),
                   NumStr(1000), Txt(<<>>), Txt(<<"7","7">>) >>),
       TextLine(<< DateStr("d/m/Y", D(2025, 1, 7)), Txt(<<>>), Txt(<<"h">>),
                   Txt(<<"x">>), Txt(<<>>), Txt(<<"0","0","0","0">>) >>) >>

\* the first header holds a date keyword and an operation keyword, the third
\* a debit keyword and a credit keyword
GenericHeader ==
    << Hdr({"fecha", "operation"}), Hdr({"trans"}), Hdr({"cargo", "abono"}),
       Hdr({"abono"}), Hdr({"nro"}) >>

GenericSheet ==
    << << Txt(<<"t">>), Empty, Empty, Empty, Empty >>,
       GenericHeader,
       << DateStr("Y.m.d", D(2025, 1, 5)), Txt(<<"a">>), NumStr(100000), Empty,
          Txt(<<"7","8","9","0","1","2">>) >>,
       << Empty, Empty, Empty, Empty, Empty >>,
       << DateStr("d-m", D(0, 1, 6)), Txt(<<"b">>), Num(0), Num(2010), Empty >>,
       << DateStr("d/m/Y", D(2025, 1, 7)), Txt(<<"c">>), Empty, Num(-3000),
          Txt(<<"0","5","5","5">>) >>,
       << Txt(<<"x">>), Txt(<<"d">>), Txt(<<"y">>), Empty, Txt(<<"7","7">>) >> >>

\* a row without any value
BlankRow == << Empty, Empty, Empty, Empty, Empty >>

\* a sheet whose header row is its tenth row; the amount of its data row is
\* 1% below that of the third payment
LateHeaderSheet ==
    << << Txt(<<"t">>), Empty, Empty, Empty, Empty >>,
       BlankRow, BlankRow, BlankRow, BlankRow, BlankRow, BlankRow, BlankRow, BlankRow,
       GenericHeader,
       << DateStr("d/m/Y", D(2025, 1, 5)), Txt(<<"a">>), Empty, Num(2000), Empty >> >>

\* a header row and rows that carry a description only
BarrenSheet ==
    << GenericHeader,
       << Empty, Txt(<<"a">>), Empty, Empty, Empty >>,
       << Txt(<<"x">>), Txt(<<"b">>), Txt(<<" ">>), NumStr(0), Empty >> >>

\* the description of the opening-balance row
SaldoAnterior == <<"S","A","L","D","O"," ","A","N","T","E","R","I","O","R">>

\* the second data row is the opening balance; the description of the last
\* row contains the words of the opening balance after another word
ContinentalSheet ==
    << << Txt(<<"t">>), Empty, Empty, Empty >>,
       << Hdr({"N OPER"}), Hdr({"FECHA OPER", "fecha"}), Hdr({"DESCRIPCI"}),
          Hdr({"CARGO/ABONO", "CARGO", "cargo", "abono"}) >>,
       << Empty, Empty,
          Cell("str", SaldoAnterior, "", NoDate, FALSE, 0, {"SALDO ANTERIOR"}),
          NumStr(900000) >>,
       << Txt(<<"5","5","5">>), DateStr("d-m", D(0, 12, 15)), Txt(<<"c">>),
          NumStr(-99990) >>,
       << Empty, DateStr("d-m", D(0, 1, 6)), Txt(<<"d">>), Num(2030) >>,
       << Empty, DateStr("d-m", D(0, 1, 7)),
          Cell("str", <<"P","A","G","O"," ">> \o SaldoAnterior, "", NoDate, FALSE, 0,
               {"SALDO ANTERIOR"}),
          NumStr(5000) >> >>

\* a Continental sheet whose header row is its fifth row
ContinentalLateSheet ==
    << << Txt(<<"t">>), Empty, Empty, Empty >>,
       << Empty, Empty, Empty, Empty >>,
       << Empty, Empty, Empty, Empty >>,
       << Empty, Empty, Empty, Empty >>,
       << Hdr({"N OPER"}), Hdr({"FECHA OPER", "fecha"}), Hdr({"DESCRIPCI"}),
          Hdr({"CARGO/ABONO", "CARGO", "cargo", "abono"}) >>,
       << Empty, DateStr("d-m", D(0, 1, 6)), Txt(<<"d">>), Num(1000) >> >>

TxtName == <<"a", ".", "t", "x", "t">>
UpperTxtName == <<"a", ".", "T", "X", "T">>
OtherName == <<"a", ".", "d", "a", "t">>
XlsxName == <<"a", ".", "x", "l", "s", "x">>
XlsName == <<"a", ".", "X", "L", "S">>

Uploads ==
    << [file_name |-> TxtName, bank_type |-> "bcp", data |-> NoData],
       [file_name |-> TxtName, bank_type |-> "bcp", data |-> TextData(StatementText)],
       [file_name |-> UpperTxtName, bank_type |-> "other",
        data |-> TextData(OtherText)],
       [file_name |-> TxtName, bank_type |-> "bcp",
        data |-> TextData(<<NoiseLine, BlankLine>>)],
       [file_name |-> OtherName, bank_type |-> "nacion",
        data |-> BookData(TRUE, FALSE, GenericSheet)],
       [file_name |-> XlsxName, bank_type |-> "nacion",
        data |-> BookData(TRUE, FALSE, GenericSheet)],
       [file_name |-> XlsName, bank_type |-> "nacion",
        data |-> BookData(FALSE, TRUE, GenericSheet)],
       [file_name |-> XlsxName, bank_type |-> "nacion",
        data |-> BookData(TRUE, FALSE, BarrenSheet)],
       [file_name |-> XlsxName, bank_type |-> "continental",
        data |-> BookData(TRUE, FALSE, ContinentalSheet)],
       [file_name |-> XlsName, bank_type |-> "continental",
        data |-> BookData(FALSE, TRUE, ContinentalSheet)],
       [file_name |-> XlsxName, bank_type |-> "nacion",
        data |-> BookData(TRUE, FALSE, LateHeaderSheet)],
       [file_name |-> XlsName, bank_type |-> "nacion",
        data |-> BookData(FALSE, TRUE, LateHeaderSheet)],
       [file_name |-> XlsxName, bank_type |-> "continental",
        data |-> BookData(TRUE, FALSE, ContinentalLateSheet)] >>

Days == << D(2025, 1, 10), D(2025, 3, 10), D(2026, 2, 1) >>

Wizard(date_from, date_to, amount_tolerance, communication, reference, narration) ==
    [date_from |-> date_from, date_to |-> date_to,
     amount_tolerance |-> amount_tolerance,
     search_in_communication |-> communication,
     search_in_reference |-> reference, search_in_narration |-> narration]

\* the wizard's defaults, a date range with a 1% tolerance, the memo and
\* narration fields alone before a date, no field at all
Wizards ==
    { Wizard(0, 0, 0, TRUE, TRUE, TRUE), Wizard(2, 0, 1, TRUE, TRUE, TRUE),
      Wizard(0, 1, 0, FALSE, FALSE, TRUE), Wizard(0, 0, 0, FALSE, FALSE, FALSE) }

(***************************************************************************)
(* The state machine.                                                      *)
(***************************************************************************)
\* the state each payment is in when it is not a draft
Confirmed == << "posted", "in_process", "sent" >>

LineIds(ls) == {ls[i].id : i \in DOMAIN ls}

MatchIds(ms) == {m.id : m \in ms}

\* the identifier the store gives the first record a call creates, the next
\* records taking the following ones: no record of the table carries any of
\* them when the call starts
FreshId(used) ==
    IF used \cap (1..IdBlock) = {} THEN 1
    ELSE IF used \cap ((IdBlock + 1)..(2 * IdBlock)) = {} THEN IdBlock + 1
    ELSE 1 + CHOOSE x \in used : \A y \in used : y <= x

\* the history of the last step: the call made, whether it repeats the call
\* made by the step before it, its outcome (res, err), whether a Match
\* creation failed in it, and the spreadsheet backends it attempted
History(op, rep, res, err, failed, tried) ==
    [op |-> op, rep |-> rep, res |-> res, err |-> err, failed |-> failed,
     tried |-> tried]

\* a step of the environment is no call
NoCall(op) == History(op, FALSE, "", "", FALSE, <<>>)

Init ==
    /\ file = 1
    /\ state = "draft"
    /\ line_ids = <<>>
    /\ matched_payment_ids = {}
    /\ pstate = Confirmed
    /\ badPay = {}
    /\ libs = [openpyxl |-> TRUE, xlrd |-> TRUE]
    /\ today = 1
    /\ env = 0
    /\ h = NoCall("new")

\* action_process_file on upload u, r being what ProcessFile returned
ProcessDone(u, r) ==
    /\ line_ids' = r.lines
    /\ matched_payment_ids' =
           CascadeMatches(matched_payment_ids,
                          LineIds(line_ids) \ LineIds(UnlinkLines(line_ids)))
    /\ state' = IF r.err = "" THEN "processed" ELSE state
    /\ h' = History("process", h.op = "process" /\ file = u,
                    IF r.err = "" THEN "ok" ELSE "error", r.err, FALSE, r.tried)

\* the user writes file_data, file_name and bank_type (upload u) and calls
\* action_process_file
ActionProcessFile(u) ==
    /\ file' = u
    /\ IF ~Uploads[u].data.present
       THEN /\ h' = History("process", h.op = "process" /\ file = u, "error",
                            "no file", FALSE, <<>>)
            /\ UNCHANGED << state, line_ids, matched_payment_ids >>
       ELSE ProcessDone(u, ProcessFile(Uploads[u], libs, Days[today],
                                       UnlinkLines(line_ids),
                                       FreshId(LineIds(line_ids))))
    /\ UNCHANGED << pstate, badPay, libs, today, env >>

\* the store a matching call starts from, once the prior Matches are unlinked
MatchStart(ms) ==
    [ms |-> UnlinkMatches(ms), seq |-> FreshId(MatchIds(ms)),
     created |-> 0, raised |-> FALSE, failed |-> FALSE]

\* a status that becomes matched only when a Match was found
StateIfMatches(r, old) == IF r.raised \/ r.ms = {} THEN old ELSE "matched"

\* the status after the loop of action_match_payments ended with store r:
\* self.state = 'matched' is not reached when the loop raised
StateAfterMatch(r, old) == IF r.raised THEN old ELSE "matched"

\* the outcome of a matching call that ended with store r
MatchHistory(op, rep, r) ==
    History(op, rep, IF r.raised THEN "error" ELSE "ok",
            IF r.raised THEN "create" ELSE "", r.failed, <<>>)

\* action_match_payments once the loop over line_ids ended with store r
MatchDone(r) ==
    /\ matched_payment_ids' = r.ms
    /\ state' = StateAfterMatch(r, state)
    /\ h' = MatchHistory("match", h.op = "match", r)
    /\ UNCHANGED << file, line_ids, pstate, badPay, libs, today, env >>

\* action_match_payments
ActionMatchPayments ==
    IF line_ids = <<>>
    THEN /\ h' = History("match", h.op = "match", "error", "no lines", FALSE, <<>>)
         /\ UNCHANGED << file, state, line_ids, matched_payment_ids,
                         pstate, badPay, libs, today, env >>
    ELSE MatchDone(MatchLines(line_ids, MatchStart(matched_payment_ids)))

\* action_advanced_match once the loop over line_ids ended with store r
AdvancedDone(r) ==
    /\ matched_payment_ids' = r.ms
    /\ state' = IF ~r.raised /\ r.created > 0 THEN "matched" ELSE state
    /\ h' = MatchHistory("advanced", FALSE, r)
    /\ UNCHANGED << file, line_ids, pstate, badPay, libs, today, env >>

\* BankImportWizard.action_advanced_match on this Import
ActionAdvancedMatch(wiz) ==
    AdvancedDone(AdvancedLines(wiz, line_ids, AdvancedPayments(wiz),
                               MatchStart(matched_payment_ids)))

\* a payment is reset to draft, or confirmed again
PaymentWrite(p) ==
    /\ pstate' = [pstate EXCEPT ![p] = IF @ = "draft" THEN Confirmed[p] ELSE "draft"]
    /\ h' = NoCall("payment")
    /\ env < MaxEnv
    /\ env' = env + 1
    /\ UNCHANGED << file, state, line_ids, matched_payment_ids,
                    badPay, libs, today >>

\* the store starts or stops refusing the Matches of one payment
StoreFault(S) ==
    /\ S # badPay
    /\ badPay' = S
    /\ h' = NoCall("fault")
    /\ env < MaxEnv
    /\ env' = env + 1
    /\ UNCHANGED << file, state, line_ids, matched_payment_ids,
                    pstate, libs, today >>

\* a spreadsheet backend is installed or removed
Install(b) ==
    /\ b # libs
    /\ libs' = b
    /\ h' = NoCall("install")
    /\ env < MaxEnv
    /\ env' = env + 1
    /\ UNCHANGED << file, state, line_ids, matched_payment_ids,
                    pstate, badPay, today >>

\* time passes
Tick ==
    /\ today < MaxDay
    /\ today' = today + 1
    /\ h' = NoCall("tick")
    /\ env < MaxEnv
    /\ env' = env + 1
    /\ UNCHANGED << file, state, line_ids, matched_payment_ids,
                    pstate, badPay, libs >>

Next ==
    \/ \E u \in DOMAIN Uploads : ActionProcessFile(u)
    \/ ActionMatchPayments
    \/ \E wiz \in Wizards : ActionAdvancedMatch(wiz)
    \/ \E p \in PaymentIds : PaymentWrite(p)
    \/ \E S \in {{}} \cup {{p} : p \in PaymentIds} : StoreFault(S)
    \/ \E b \in [openpyxl : BOOLEAN, xlrd : BOOLEAN] : Install(b)
    \/ Tick

Spec == Init /\ [][Next]_vars

(***************************************************************************)
(* Properties.  h tells which call the last step made, so a property of    *)
(* one call is an action property on the step that makes it, and a         *)
(* property of two calls in a row one on the second step.                  *)
(***************************************************************************)
\* the Transactions of a sequence of records, identifiers left out
Transactions(ls) ==
    [i \in DOMAIN ls |->
        [transaction_date |-> ls[i].transaction_date,
         description |-> ls[i].description, amount |-> ls[i].amount,
         operation_number |-> ls[i].operation_number]]

\* the (Transaction, payment, tier) triples of a Match set
Triples(ms) == {<< m.import_line_id, m.payment_id, m.match_type >> : m \in ms}

\* the Transaction a Match links
LineOf(m) == line_ids[CHOOSE i \in DOMAIN line_ids : line_ids[i].id = m.import_line_id]

\* C1: after any sequence of process, default match and advanced match calls,
\* no two Match records of the Import link the same (Transaction, payment)
\* pair.
C1_NoDuplicateMatch ==
    \A m1, m2 \in matched_payment_ids :
        (m1.import_line_id = m2.import_line_id /\ m1.payment_id = m2.payment_id)
            => m1 = m2

\* an advanced match has just replaced the Matches of an earlier matching call
C1_Witness ==
    /\ h.op = "advanced"
    /\ Cardinality(matched_payment_ids) >= 2
    /\ \E m \in matched_payment_ids : m.id > IdBlock

\* C2: process called twice in a row with the same file, file name and bank
\* leaves, after the second call, the Transactions the first call left
\* (identifiers aside): the prior set is replaced, not appended to.
C2_ProcessTwice ==
    [][(h.op = "process" /\ h'.op = "process" /\ h'.rep)
           => Transactions(line_ids') = Transactions(line_ids)]_vars

\* a second process of the same file has just replaced two or more Transactions
C2_Witness ==
    /\ h.op = "process" /\ h.rep /\ h.res = "ok"
    /\ Len(line_ids) >= 2
    /\ line_ids[1].id > IdBlock

\* C3: default match called twice in a row, Transactions and payments
\* unchanged, leaves after the second call the (Transaction, payment, tier)
\* triples the first call left: Matches do not accumulate.
C3_MatchTwice ==
    [][(h.op = "match" /\ h'.op = "match")
           => Triples(matched_payment_ids') = Triples(matched_payment_ids)]_vars

\* a second default match in a row has just rebuilt three or more Matches
C3_Witness ==
    /\ h.op = "match" /\ h.rep /\ h.res = "ok"
    /\ Cardinality(matched_payment_ids) >= 3
    /\ \E m \in matched_payment_ids : m.id > IdBlock

\* C4: a process call that extracts no Transaction fails with an error and
\* leaves the status as it was, so a draft Import stays a draft.
C4_ZeroExtraction ==
    [][(h'.op = "process" /\ line_ids' = <<>>)
           => (h'.res = "error" /\ state' = state)]_vars

\* a draft Import has just failed to process a sheet with a header row and
\* rows that qualify for no Transaction
C4_Witness ==
    /\ h.op = "process" /\ h.res = "error" /\ h.err = "no data"
    /\ Uploads[file].data.sheet = BarrenSheet
    /\ state = "draft"

\* C5: a process call that fails because no file is provided, the content is
\* not UTF-8 or no spreadsheet backend is available leaves the Transactions,
\* the Matches and the status of the Import as they were.
C5_FailedProcessLeavesImport ==
    [][(h'.op = "process" /\ h'.err \in {"no file", "decode", "no backend"})
           => /\ line_ids' = line_ids
              /\ matched_payment_ids' = matched_payment_ids
              /\ state' = state]_vars

\* C6: a default match call on an Import with at least one Transaction, in
\* which no Match creation fails, ends with status matched, also when it
\* finds no Match at all.
C6_MatchEndsMatched ==
    [][(h'.op = "match" /\ line_ids # <<>> /\ ~h'.failed)
           => (h'.res = "ok" /\ state' = "matched")]_vars

\* a default match has just ended without any Match
C6_Witness ==
    /\ h.op = "match" /\ h.res = "ok" /\ ~h.failed
    /\ line_ids # <<>>
    /\ matched_payment_ids = {}
    /\ state = "matched"

\* C7: a Match of the default algorithm for a Transaction with an empty
\* operation number is tagged partial, and a Match of the amount pass is
\* tagged exact only when the operation rule hit on a non-empty operation
\* number.
C7_TierOfMatch ==
    \A m \in matched_payment_ids :
        m.pass \in {1, 2} =>
            /\ LineOf(m).operation_number = <<>> => m.match_type = "partial"
            /\ (m.pass = 1 /\ m.match_type = "exact") =>
                   /\ LineOf(m).operation_number # <<>>
                   /\ CheckOperationMatch(Payments[m.payment_id],
                                          LineOf(m).operation_number)

\* C8: after a default match call, completed or failed partway, the Match set
\* holds no record that existed before the call.
C8_PriorMatchesCleared ==
    [][h'.op = "match"
           => MatchIds(matched_payment_ids') \cap MatchIds(matched_payment_ids) = {}]_vars

\* a default match on an Import that had Matches has just failed partway and
\* left the Matches it had created
C8_Witness ==
    /\ h.op = "match" /\ h.res = "error" /\ h.err = "create"
    /\ matched_payment_ids # {}
    /\ \A m \in matched_payment_ids : m.id > IdBlock

\* C9: whenever the creation of a Match fails during a default match, in the
\* amount pass or in the operation-number pass, the call ends with an error
\* and the status is not set to matched.
C9_CreateFailureIsFatal ==
    [][(h'.op = "match" /\ h'.failed)
           => (h'.res = "error" /\ state' = state)]_vars

\* C10: after a default match in which no creation failed, for a Transaction
\* with no active payment of exactly its absolute amount, every active payment
\* within 0.01 of that amount, bounds included, has a Match when the operation
\* rule holds or the operation number is empty; for a Transaction with such a
\* payment, the Matches of the amount pass are with payments of exactly that
\* amount.
C10_ToleranceWindow ==
    (h.op = "match" /\ h.res = "ok" /\ ~h.failed) =>
        \A i \in DOMAIN line_ids :
            IF ExactAmount(Abs(line_ids[i].amount)) = {}
            THEN \A p \in ActivePayments :
                    (/\ Abs(Payments[p].amount - Abs(line_ids[i].amount)) <= tolerance
                     /\ CheckOperationMatch(Payments[p], line_ids[i].operation_number))
                        => \E m \in matched_payment_ids :
                               /\ m.import_line_id = line_ids[i].id
                               /\ m.payment_id = p
            ELSE \A m \in matched_payment_ids :
                    (m.import_line_id = line_ids[i].id /\ m.pass = 1)
                        => Payments[m.payment_id].amount = Abs(line_ids[i].amount)

\* the fields of a payment the operation rule reads
OperationFields(payment) ==
    {payment.name, payment.memo, payment.communication, payment.payment_reference}

\* C11 (as claimed): for every Transaction with a non-empty operation number
\* and every payment, the operation rule hits when the operation number,
\* verbatim or with its leading zeros stripped ("0" when nothing is left),
\* occurs in one of the payment's reference, memo, communication or
\* payment-reference fields.
C11_OperationRuleHits ==
    \A i \in DOMAIN line_ids : \A p \in PaymentIds :
        (/\ line_ids[i].operation_number # <<>>
         /\ \E f \in OperationFields(Payments[p]) :
                \/ Contains(line_ids[i].operation_number, f)
                \/ Contains(StripZeros(line_ids[i].operation_number), f))
            => CheckOperationMatch(Payments[p], line_ids[i].operation_number)

\* C11 (amended): the operation rule hits when the operation number occurs in
\* one of the four fields verbatim, or with its blanks and leading zeros
\* stripped provided something other than zeros is left of it.
C11_OperationRuleHitsUnlessZeros ==
    \A i \in DOMAIN line_ids : \A p \in PaymentIds :
        (/\ line_ids[i].operation_number # <<>>
         /\ \E f \in OperationFields(Payments[p]) :
                \/ Contains(line_ids[i].operation_number, Strip(f))
                \/ /\ StripZeros(Strip(line_ids[i].operation_number)) # <<"0">>
                   /\ Contains(StripZeros(Strip(line_ids[i].operation_number)),
                               Strip(f)))
            => CheckOperationMatch(Payments[p], line_ids[i].operation_number)

\* a default match has just linked a Transaction whose operation number
\* starts with a zero to a payment that carries it without the zero only
C11_Witness ==
    /\ h.op = "match" /\ h.res = "ok"
    /\ \E m \in matched_payment_ids :
           /\ LineOf(m).operation_number # <<>>
           /\ Head(LineOf(m).operation_number) = "0"
           /\ \A f \in OperationFields(Payments[m.payment_id]) :
                  ~Contains(LineOf(m).operation_number, f)
           /\ \E f \in OperationFields(Payments[m.payment_id]) :
                  Contains(StripZeros(LineOf(m).operation_number), f)

\* the last step was a successful process call on a text file
TextProcessed ==
    /\ h.op = "process" /\ h.res = "ok"
    /\ ComputeFileType(Uploads[file].file_name) = "txt"

\* C12: after the text parser ran for bank bcp, the operation number of every
\* Transaction is the last 6 characters of field[5] of its line when the field
\* has at least 6 characters and the field itself otherwise, so it is never
\* longer than 6; for any other bank it is field[5] as it stands.
C12_BcpTruncation ==
    TextProcessed =>
        \A i \in DOMAIN line_ids :
            LET raw == line_ids[i].original_line[6].s
                op == line_ids[i].operation_number
            IN IF Uploads[file].bank_type = "bcp"
               THEN /\ Len(op) <= 6
                    /\ op = IF Len(raw) >= 6
                            THEN [k \in 1..6 |-> raw[Len(raw) - 6 + k]] ELSE raw
               ELSE op = raw

\* the text parser has just cut an operation number of more than 6 characters
\* for bank bcp and kept a shorter one as it was
C12_Witness ==
    /\ TextProcessed
    /\ Uploads[file].bank_type = "bcp"
    /\ \E i \in DOMAIN line_ids :
           /\ Len(line_ids[i].original_line[6].s) > 6
           /\ Len(line_ids[i].operation_number) = 6
    /\ \E i \in DOMAIN line_ids :
           /\ Len(line_ids[i].operation_number) \in 1..5
           /\ line_ids[i].operation_number = line_ids[i].original_line[6].s

\* the last step was a successful process call on a spreadsheet, read on the
\* generic path (generic = TRUE) or on the Continental path
SheetProcessed(generic) ==
    /\ h.op = "process" /\ h.res = "ok"
    /\ ComputeFileType(Uploads[file].file_name) = "excel"
    /\ generic = (Uploads[file].bank_type # "continental")

\* the backend that read the sheet in the last process call
Backend == h.tried[Len(h.tried)]

\* the column mapping the generic path made of the header row of the sheet
SheetMapping ==
    GetExcelColumnMapping(
        ExcelHeaders(Uploads[file].data.sheet[HeaderRow(Uploads[file].data.sheet,
                                                        Backend)], Backend))

\* the cell holds a number other than zero, as a number or as text
NonZero(c) == c.t \in {"num", "str"} /\ c.isnum /\ c.num # 0

\* C13: after the generic spreadsheet path ran, every Transaction made from a
\* row with a non-zero debit-column value has amount < 0, and every
\* Transaction made from a row with a non-zero credit-column value and no
\* (or a zero) debit value has amount > 0, whatever the sign of the cell.
C13_AmountSign ==
    SheetProcessed(TRUE) =>
        \A i \in DOMAIN line_ids :
            LET debit == Column(line_ids[i].original_line, SheetMapping, "cargo", Backend)
                credit == Column(line_ids[i].original_line, SheetMapping, "abono", Backend)
            IN /\ NonZero(debit) => line_ids[i].amount < 0
               /\ (NonZero(credit) /\ ~NonZero(debit)) => line_ids[i].amount > 0

\* the cell spells a day and a month, DD-MM, that exist in year y
DayMonth(c, y) ==
    /\ c.t = "str" /\ c.fmt = "d-m"
    /\ c.date.m \in 1..12
    /\ c.date.d \in 1..DaysInMonth(y, c.date.m)

\* the year the claim gives a DD-MM date of month m read at day now
RolledYear(m, now) == IF now.m \in {1, 2} /\ m \in {11, 12} THEN now.y - 1 ELSE now.y

\* C14: after the Continental path ran, every Transaction whose date cell
\* spells DD-MM has that day and month in the current year, or in the previous
\* year when the current month is 1 or 2 and the month of the row is 11 or 12.
C14_ContinentalYear ==
    SheetProcessed(FALSE) =>
        \A i \in DOMAIN line_ids :
            LET c == line_ids[i].original_line[1]
                y == RolledYear(c.date.m, Days[today])
            IN DayMonth(c, y) =>
                   line_ids[i].transaction_date = [y |-> y, m |-> c.date.m, d |-> c.date.d]

\* the Continental path has just dated a December row in the previous year
\* and a January row in the current year
C14_Witness ==
    /\ SheetProcessed(FALSE)
    /\ Days[today].m = 1
    /\ \E i \in DOMAIN line_ids :
           /\ line_ids[i].original_line[1].fmt = "d-m"
           /\ line_ids[i].transaction_date = [y |-> Days[today].y - 1, m |-> 12, d |-> 15]
    /\ \E i \in DOMAIN line_ids :
           /\ line_ids[i].original_line[1].fmt = "d-m"
           /\ line_ids[i].transaction_date.y = Days[today].y
           /\ line_ids[i].transaction_date.m = 1

\* the date and the amount of the Transaction are the fallbacks when the
\* source has no date (nodate) or no amount (noamount) to read
Fallbacks(line, nodate, noamount) ==
    /\ nodate => line.transaction_date = Days[today]
    /\ noamount => line.amount = 0

\* the rows of the sheet below the header row that carry a value and a
\* non-zero amount or an operation number
RowsToKeep ==
    {r \in (HeaderRow(Uploads[file].data.sheet, Backend) + 1)
              ..Len(Uploads[file].data.sheet) :
        /\ AnyValue(Uploads[file].data.sheet[r])
        /\ \/ NonZero(Column(Uploads[file].data.sheet[r], SheetMapping, "cargo", Backend))
           \/ NonZero(Column(Uploads[file].data.sheet[r], SheetMapping, "abono", Backend))
           \/ Truthy(Column(Uploads[file].data.sheet[r], SheetMapping, "operation",
                            Backend))}

\* C15: every Transaction has its owning Import, a date and an amount; after
\* a process call the date is today's when the row's date could not be
\* resolved and the amount is 0 when it could not be parsed, on the text, the
\* generic and the Continental path, and a spreadsheet row with an amount or
\* an operation number has its Transaction whatever its date.
C15_NormalizedTransaction ==
    /\ \A i \in DOMAIN line_ids :
           /\ line_ids[i].import_id = ImportId
           /\ line_ids[i].transaction_date # NoDate
           /\ line_ids[i].transaction_date.y > 0
           /\ line_ids[i].amount \in Int
    /\ TextProcessed =>
           \A i \in DOMAIN line_ids :
               Fallbacks(line_ids[i], FALSE, ~line_ids[i].original_line[4].isnum)
    /\ SheetProcessed(TRUE) =>
           /\ \A i \in DOMAIN line_ids :
                  Fallbacks(line_ids[i],
                            ExcelDate(Column(line_ids[i].original_line, SheetMapping,
                                             "date", Backend), Backend) = NoDate,
                            /\ ~ExcelNumber(Column(line_ids[i].original_line,
                                                   SheetMapping, "cargo", Backend))
                            /\ ~ExcelNumber(Column(line_ids[i].original_line,
                                                   SheetMapping, "abono", Backend)))
           /\ \A r \in RowsToKeep :
                  \E i \in DOMAIN line_ids :
                      line_ids[i].original_line = Uploads[file].data.sheet[r]
    /\ SheetProcessed(FALSE) =>
           \A i \in DOMAIN line_ids :
               Fallbacks(line_ids[i],
                         ParseContinentalDate(line_ids[i].original_line[1],
                                              Days[today]) = NoDate,
                         ~line_ids[i].original_line[3].isnum)

\* the generic path has just made a Transaction of a row whose date and
\* amount cannot be read: it is dated today and its amount is 0
C15_Witness ==
    /\ SheetProcessed(TRUE)
    /\ \E i \in DOMAIN line_ids :
           /\ line_ids[i].original_line[1].t = "str"
           /\ line_ids[i].original_line[1].fmt = ""
           /\ line_ids[i].original_line[3].t = "str"
           /\ ~line_ids[i].original_line[3].isnum
           /\ line_ids[i].transaction_date = Days[today]
           /\ line_ids[i].amount = 0

\* C16: a process call for bank continental on a workbook that only the
\* legacy backend opens succeeds and leaves the Transactions the Continental
\* rules of the modern backend make of the same grid of cells.
C16_LegacyContinental ==
    (/\ h.op = "process"
     /\ ComputeFileType(Uploads[file].file_name) = "excel"
     /\ Uploads[file].bank_type = "continental"
     /\ Uploads[file].data.xls /\ ~Uploads[file].data.zip
     /\ libs.xlrd)
        => /\ h.res = "ok"
           /\ Transactions(line_ids) =
                  Transactions(ParseContinentalExcelOpenpyxl(
                                   Uploads[file].data.sheet, Days[today],
                                   [lines |-> <<>>, seq |-> 1]).lines)

\* C17: after an advanced match call the Match set holds no record that
\* existed before the call, whether the call found a correspondence or not.
C17_AdvancedReplaces ==
    [][h'.op = "advanced"
           => MatchIds(matched_payment_ids') \cap MatchIds(matched_payment_ids) = {}]_vars

\* an advanced match on the Transactions of the bcp statement, which had been
\* matched before, has just found no correspondence and left no Match
C17_Witness ==
    /\ h.op = "advanced" /\ h.res = "ok"
    /\ file = 2 /\ line_ids # <<>>
    /\ state = "matched"
    /\ matched_payment_ids = {}

\* the Matches of a Transaction
MatchesOf(line) == {m \in matched_payment_ids : m.import_line_id = line.id}

\* the payments of the amount-filtered search for a Transaction
AmountPool(line) ==
    IF ExactAmount(Abs(line.amount)) # {} THEN ExactAmount(Abs(line.amount))
    ELSE NearAmount(Abs(line.amount))

\* C18: after a default match call that ended without error, a Transaction
\* with a non-empty operation number for which the amount pass created no
\* Match has a partial Match with every active payment that satisfies the
\* operation rule, whatever its amount; a Transaction for which the amount
\* pass created a Match has no Match with a payment outside the amount pool.
C18_BroadenedSearch ==
    (h.op = "match" /\ h.res = "ok") =>
        \A i \in DOMAIN line_ids :
            IF \A m \in MatchesOf(line_ids[i]) : m.pass # 1
            THEN line_ids[i].operation_number # <<>> =>
                     \A p \in ActivePayments :
                         CheckOperationMatch(Payments[p], line_ids[i].operation_number)
                             => \E m \in MatchesOf(line_ids[i]) :
                                    m.payment_id = p /\ m.match_type = "partial"
            ELSE \A m \in MatchesOf(line_ids[i]) :
                     m.payment_id \in AmountPool(line_ids[i])

\* a candidate line by the claim's words: not empty, starting with a quote,
\* of at least 6 fields, the first of which is a DD/MM/YYYY date
Candidate(line) ==
    /\ ~line.blank /\ line.quote
    /\ Len(line.fields) >= 6
    /\ line.fields[1].fmt = "d/m/Y" /\ ~line.fields[1].pad

\* C19: a process call on a text file fails exactly when the content is not
\* UTF-8 or holds no candidate line; when it succeeds the Transactions are
\* those of the candidate lines, one for each, in file order, every other
\* line being skipped.
C19_OnePerCandidateLine ==
    (/\ h.op = "process"
     /\ Uploads[file].data.present
     /\ ComputeFileType(Uploads[file].file_name) = "txt")
        => LET kept == SelectSeq(Uploads[file].data.text, Candidate)
           IN /\ h.res = "ok" <=> (Uploads[file].data.utf8 /\ kept # <<>>)
              /\ h.res = "ok" =>
                     [i \in DOMAIN line_ids |-> line_ids[i].original_line]
                         = [k \in DOMAIN kept |-> kept[k].fields]

\* the text parser has just made the Transactions of a file that also holds
\* lines that are no candidates
C19_Witness ==
    /\ TextProcessed
    /\ Len(line_ids) >= 2
    /\ Len(Uploads[file].data.text) > Len(line_ids) + 2

\* the first n rows of a sheet
Window(sheet, n) == 1..(IF Len(sheet) < n THEN Len(sheet) ELSE n)

\* the first row of a set of rows, 0 when there is none
FirstRow(S) == IF S = {} THEN 0 ELSE CHOOSE r \in S : \A q \in S : r <= q

\* the header row by the claim's words: the first of the first 10 rows with a
\* cell containing "fecha" on the generic path, the first of the first 5 rows
\* containing "FECHA OPER" and "CARGO" on the Continental path
MarkedRow(sheet, generic, backend) ==
    IF generic
    THEN FirstRow({r \in Window(sheet, 10) :
                      \E j \in DOMAIN sheet[r] :
                          "fecha" \in CellWords(sheet[r][j], backend)})
    ELSE FirstRow({r \in Window(sheet, 5) :
                      {"FECHA OPER", "CARGO"} \subseteq RowWords(sheet[r])})

\* the backend opened the workbook in the last process call
Opened(backend) ==
    /\ h.op = "process"
    /\ ComputeFileType(Uploads[file].file_name) = "excel"
    /\ \E k \in DOMAIN h.tried : h.tried[k] = backend
    /\ IF backend = "openpyxl" THEN Uploads[file].data.zip ELSE Uploads[file].data.xls
    /\ Len(Uploads[file].data.sheet) >= 2

\* the parse yields Transactions
Yields(outcome) == outcome.err = "" /\ outcome.lines # <<>>

\* C20: in a process call, the header row either backend finds on the generic
\* path and the modern backend finds on the Continental path is the first
\* row of the scan window (10 rows, 5 rows) that carries the marker, the last
\* row of the window included, and the call does not fail when the parse from
\* that row yields Transactions.
C20_HeaderWindow ==
    /\ Opened("openpyxl") =>
           LET sheet == Uploads[file].data.sheet
               generic == Uploads[file].bank_type # "continental"
               marked == MarkedRow(sheet, generic, "openpyxl")
           IN /\ marked = IF generic THEN HeaderRow(sheet, "openpyxl")
                          ELSE ContinentalHeaderRow(sheet)
              /\ (/\ marked # 0
                  /\ Yields(IF generic
                            THEN ParseExcelFrom(sheet, marked, "openpyxl", Days[today],
                                                [lines |-> <<>>, seq |-> 1])
                            ELSE ParseContinentalFrom(sheet, marked, Days[today],
                                                      [lines |-> <<>>, seq |-> 1])))
                     => h.res = "ok"
    /\ (Opened("xlrd") /\ Uploads[file].bank_type # "continental") =>
           LET sheet == Uploads[file].data.sheet
               marked == MarkedRow(sheet, TRUE, "xlrd")
           IN /\ marked = HeaderRow(sheet, "xlrd")
              /\ (/\ marked # 0
                  /\ Yields(ParseExcelFrom(sheet, marked, "xlrd", Days[today],
                                           [lines |-> <<>>, seq |-> 1])))
                     => h.res = "ok"


\* the last step was a process call on a spreadsheet
SheetCall ==
    /\ h.op = "process"
    /\ Uploads[file].data.present
    /\ ComputeFileType(Uploads[file].file_name) = "excel"

\* the backend was attempted in the last process call
Attempted(backend) == \E k \in DOMAIN h.tried : h.tried[k] = backend

\* what the modern backend makes of the file of the Import
ModernOutcome ==
    OpenpyxlAttempt(Uploads[file].data, Uploads[file].bank_type, Days[today],
                    [lines |-> <<>>, seq |-> 1])

\* C21: in spreadsheet processing the legacy backend is attempted only when
\* the modern backend is unavailable or has failed, never after it succeeded;
\* when the modern backend cannot open the file and the legacy backend is
\* available, the legacy backend is attempted before the call fails; when
\* neither is available the call fails with a capability error before any
\* sheet is read or any Transaction is created.
C21_BackendOrder ==
    SheetCall =>
        /\ Attempted("xlrd") => (~libs.openpyxl \/ ModernOutcome.err # "")
        /\ (libs.xlrd /\ ~Uploads[file].data.zip) => Attempted("xlrd")
        /\ (~libs.openpyxl /\ ~libs.xlrd) =>
               /\ h.res = "error" /\ h.err = "no backend"
               /\ h.tried = <<>>
               /\ line_ids = <<>>

\* a workbook the modern backend cannot open has just been processed by the
\* legacy backend, attempted second
C21_Witness ==
    /\ SheetCall /\ h.res = "ok"
    /\ h.tried = <<"openpyxl", "xlrd">>
    /\ ~Uploads[file].data.zip
    /\ line_ids # <<>>

\* the roles in the order of the claim, each with its keywords
RoleOrder ==
    << [role |-> "date", words |-> DateWords],
       [role |-> "description", words |-> DescriptionWords],
       [role |-> "cargo", words |-> CargoWords],
       [role |-> "abono", words |-> AbonoWords],
       [role |-> "operation", words |-> OperationWords] >>

\* the first role, in that order, one of whose keywords the header contains;
\* "" when there is none
FirstRole(header) ==
    LET hits == {k \in DOMAIN RoleOrder : header \cap RoleOrder[k].words # {}}
    IN IF hits = {} THEN ""
       ELSE RoleOrder[CHOOSE k \in hits : \A q \in hits : k <= q].role

\* the last process call read a header row on the generic path
HeaderRead ==
    /\ SheetCall /\ h.tried # <<>>
    /\ Uploads[file].bank_type # "continental"
    /\ IF Backend = "openpyxl" THEN Uploads[file].data.zip ELSE Uploads[file].data.xls
    /\ Len(Uploads[file].data.sheet) >= 2
    /\ HeaderRow(Uploads[file].data.sheet, Backend) # 0

\* the headers the generic path read
SheetHeaders ==
    ExcelHeaders(Uploads[file].data.sheet[HeaderRow(Uploads[file].data.sheet, Backend)],
                 Backend)

\* C22: the generic column mapping assigns each header cell to at most one
\* role, the first role in the order date, description, debit, credit,
\* operation one of whose keywords the header contains (a role goes to the
\* last header classified to it); a header containing "fecha" and
\* "operation" is mapped to date and not to operation.
C22_FirstRoleWins ==
    HeaderRead =>
        \A i \in 0..(Len(SheetHeaders) - 1) :
            /\ {r \in DOMAIN SheetMapping : SheetMapping[r] = i}
                   \subseteq {FirstRole(SheetHeaders[i + 1])}
            /\ FirstRole(SheetHeaders[i + 1]) # "" =>
                   /\ FirstRole(SheetHeaders[i + 1]) \in DOMAIN SheetMapping
                   /\ SheetMapping[FirstRole(SheetHeaders[i + 1])] >= i
            /\ {"fecha", "operation"} \subseteq SheetHeaders[i + 1] =>
                   /\ "date" \in DOMAIN SheetMapping => SheetMapping["date"] >= i
                   /\ "operation" \in DOMAIN SheetMapping => SheetMapping["operation"] # i

\* the generic path has just read the dates of its Transactions from a column
\* whose header holds "fecha" and "operation", and their operation numbers
\* from another column
C22_Witness ==
    /\ SheetProcessed(TRUE) /\ HeaderRead
    /\ \E i \in 0..(Len(SheetHeaders) - 1) :
           /\ {"fecha", "operation"} \subseteq SheetHeaders[i + 1]
           /\ SheetMapping["date"] = i
           /\ SheetMapping["operation"] # i
           /\ \E k \in DOMAIN line_ids :
                  /\ line_ids[k].original_line[i + 1].fmt # ""
                  /\ line_ids[k].transaction_date = line_ids[k].original_line[i + 1].date
                  /\ line_ids[k].operation_number # <<>>
                  /\ line_ids[k].operation_number =
                         line_ids[k].original_line[SheetMapping["operation"] + 1].s

\* the header row of the Continental sheet of the Import
ContinentalHeader ==
    Uploads[file].data.sheet[ContinentalHeaderRow(Uploads[file].data.sheet)]

\* the cell of a row in the column whose header carries the marker
UnderHeader(row, marker) ==
    row[CHOOSE j \in DOMAIN ContinentalHeader : marker \in ContinentalHeader[j].w]

\* the data rows of the Continental sheet of the Import
ContinentalData ==
    {Uploads[file].data.sheet[r] :
        r \in (ContinentalHeaderRow(Uploads[file].data.sheet) + 1)
                  ..Len(Uploads[file].data.sheet)}

\* the Transaction holds the date, description, amount and operation number
\* read from the four cells
ReadFrom(line, fecha, descripcion, monto, operacion) ==
    /\ line.transaction_date =
           IF ParseContinentalDate(fecha, Days[today]) # NoDate
           THEN ParseContinentalDate(fecha, Days[today]) ELSE Days[today]
    /\ line.description = ContinentalText(descripcion)
    /\ line.amount = RoundCents(ParseContinentalAmount(monto))
    /\ line.operation_number = ContinentalText(operacion)

\* C23: on the Continental path the date, description, amount and operation
\* number of every data row are taken from the columns whose headers are
\* FECHA OPER, DESCRIPCI*, CARGO/ABONO and N OPER, wherever those columns
\* sit, the first column of the sheet included.
C23_ContinentalColumns ==
    SheetProcessed(FALSE) =>
        \A row \in ContinentalData :
            (/\ AnyValue(row)
             /\ ContinentalText(UnderHeader(row, "DESCRIPCI")) # <<>>
             /\ "SALDO ANTERIOR" \notin UnderHeader(row, "DESCRIPCI").w
             /\ \/ ParseContinentalDate(UnderHeader(row, "FECHA OPER"), Days[today])
                       # NoDate
                \/ ParseContinentalAmount(UnderHeader(row, "CARGO/ABONO")) # 0
                \/ ContinentalText(UnderHeader(row, "N OPER")) # <<>>)
                => \E i \in DOMAIN line_ids :
                       ReadFrom(line_ids[i], UnderHeader(row, "FECHA OPER"),
                                UnderHeader(row, "DESCRIPCI"),
                                UnderHeader(row, "CARGO/ABONO"),
                                UnderHeader(row, "N OPER"))

\* the Transaction holds the date, description and amount read from the
\* three cells
MadeFrom(line, fecha, descripcion, monto) ==
    /\ line.transaction_date =
           IF ParseContinentalDate(fecha, Days[today]) # NoDate
           THEN ParseContinentalDate(fecha, Days[today]) ELSE Days[today]
    /\ line.description = ContinentalText(descripcion)
    /\ line.amount = RoundCents(ParseContinentalAmount(monto))

\* the row has a Transaction
Kept(row) ==
    \E i \in DOMAIN line_ids :
        MadeFrom(line_ids[i], UnderHeader(row, "FECHA OPER"),
                 UnderHeader(row, "DESCRIPCI"), UnderHeader(row, "CARGO/ABONO"))

\* C24: on the Continental path a data row has no Transaction when its
\* description is exactly SALDO ANTERIOR; a row with any other non-empty
\* description is not excluded as an opening balance: it has a Transaction
\* iff it has a date, a non-zero amount or an operation number.
C24_OpeningBalanceOnly ==
    SheetProcessed(FALSE) =>
        \A row \in ContinentalData :
            AnyValue(row) =>
                /\ ContinentalText(UnderHeader(row, "DESCRIPCI")) = SaldoAnterior
                       => ~Kept(row)
                /\ (/\ ContinentalText(UnderHeader(row, "DESCRIPCI")) # <<>>
                    /\ ContinentalText(UnderHeader(row, "DESCRIPCI")) # SaldoAnterior)
                       => (Kept(row) <=>
                              \/ ParseContinentalDate(UnderHeader(row, "FECHA OPER"),
                                                      Days[today]) # NoDate
                              \/ ParseContinentalAmount(UnderHeader(row, "CARGO/ABONO"))
                                     # 0
                              \/ ContinentalText(UnderHeader(row, "N OPER")) # <<>>)

\* the payments of the pool of the wizard: posted or sent, inside the date
\* range when one is set
Pool(wiz) ==
    {p \in PaymentIds :
        /\ pstate[p] \in {"posted", "sent"}
        /\ wiz.date_from # 0 => Payments[p].date >= wiz.date_from
        /\ wiz.date_to # 0 => Payments[p].date <= wiz.date_to}

\* the amounts correspond within the percentage tolerance of the wizard
WithinPercentage(wiz, amount, payment_amount) ==
    100 * Abs(Abs(amount) - payment_amount) <= Abs(amount) * wiz.amount_tolerance

\* the fields of a payment whose toggle is on in the wizard
EnabledFields(wiz, payment) ==
    (IF wiz.search_in_reference THEN {payment.name} ELSE {})
        \cup (IF wiz.search_in_communication THEN {payment.communication} ELSE {})
        \cup (IF wiz.search_in_narration THEN {payment.memo, payment.narration} ELSE {})

\* the non-empty operation number occurs in an enabled field
OccursEnabled(wiz, operation_number, payment) ==
    /\ operation_number # <<>>
    /\ \E f \in EnabledFields(wiz, payment) : f # <<>> /\ Contains(operation_number, f)

\* the Matches of the set ms that link the Transaction to the payment are:
\* none when neither test holds, else one, exact when both hold
Scored(ms, line, p, amount, operation) ==
    LET linked == {m \in ms : m.import_line_id = line.id /\ m.payment_id = p}
    IN /\ linked # {} <=> (amount \/ operation)
       /\ Cardinality(linked) <= 1
       /\ \A m \in linked :
              m.match_type = IF amount /\ operation THEN "exact" ELSE "partial"

\* C25: an advanced match that ends without error leaves, for every
\* Transaction and every payment of the pool, a Match iff the amount
\* corresponds within the percentage tolerance or the non-empty operation
\* number occurs in an enabled field, exact iff both hold and partial
\* otherwise; a field whose toggle is off does not count.
C25_AdvancedScore ==
    [][\A wiz \in Wizards :
           (ActionAdvancedMatch(wiz) /\ h'.res = "ok") =>
               \A i \in DOMAIN line_ids : \A p \in Pool(wiz) :
                   Scored(matched_payment_ids', line_ids[i], p,
                          WithinPercentage(wiz, line_ids[i].amount, Payments[p].amount),
                          OccursEnabled(wiz, line_ids[i].operation_number,
                                        Payments[p]))]_vars

\* C26: after any sequence of process, default match and advanced match
\* calls, successful or failed, every Match of the Import refers to a
\* Transaction that is in the Transaction set of the Import; a successful
\* process call leaves the Match set empty and the status processed, also on
\* an Import that had been matched.
C26_MatchesReferToLines ==
    /\ \A m \in matched_payment_ids : m.import_line_id \in LineIds(line_ids)
    /\ (h.op = "process" /\ h.res = "ok") =>
           (matched_payment_ids = {} /\ state = "processed")

\* an Import that had Transactions has just been processed again: its
\* Transactions are new, it has no Match and its status is processed
C26_Witness ==
    /\ h.op = "process" /\ h.res = "ok"
    /\ \A i \in DOMAIN line_ids : line_ids[i].id > IdBlock
    /\ matched_payment_ids = {}
    /\ state = "processed"

\* C27: after any sequence of process, default match and advanced match
\* calls, successful or failed, an Import whose status is processed or
\* matched has at least one Transaction; a default match on an Import with no
\* Transaction is rejected with an error and changes neither the status nor
\* the Match set.
C27_StatusHasLines ==
    /\ [](state \in {"processed", "matched"} => line_ids # <<>>)
    /\ [][(h'.op = "match" /\ line_ids = <<>>)
              => /\ h'.res = "error"
                 /\ state' = state
                 /\ matched_payment_ids' = matched_payment_ids]_vars

C29_DateMapped ==
    /\ h.err # "no mapping"
    /\ HeaderRead =>
           /\ "date" \in DOMAIN SheetMapping
           /\ "fecha" \in SheetHeaders[SheetMapping["date"] + 1]
                  \/ \E i \in (SheetMapping["date"] + 1)..(Len(SheetHeaders) - 1) :
                         SheetHeaders[i + 1] \cap DateWords # {}

\* the legacy backend has just detected a header row on the generic path and
\* the parse went on past the mapping with the date role in it
C29_Witness ==
    /\ HeaderRead /\ Backend = "xlrd"
    /\ h.res = "ok" /\ line_ids # <<>>
    /\ "date" \in DOMAIN SheetMapping
    /\ \E j \in 0..(Len(SheetHeaders) - 1) :
           "fecha" \in SheetHeaders[j + 1] /\ SheetMapping["date"] >= j

(***************************************************************************)
(* The operation rule on its own: an operation number and a payment field  *)
(* drawn from all the texts of bounded length over a zero, another digit   *)
(* and a blank, and one call of _check_operation_match on them.            *)
(***************************************************************************)
OperationAlphabet == {"0", "7", " "}
MaxOperationLen == 3
MaxFieldLen == 7

\* the texts over OperationAlphabet of the lengths in S
Texts(S) == UNION {[1..n -> OperationAlphabet] : n \in S}

\* a payment whose memo is field_value, the other fields being those of the
\* first payment of the registry
RulePayment(field_value) == [Payments[1] EXCEPT !.memo = field_value]

RuleInit ==
    /\ file = 1
    /\ state = "draft"
    /\ line_ids = <<>>
    /\ matched_payment_ids = {}
    /\ pstate = Confirmed
    /\ badPay = {}
    /\ libs = [openpyxl |-> TRUE, xlrd |-> TRUE]
    /\ today = 1
    /\ env = 0
    /\ \E operation_number \in Texts(1..MaxOperationLen) :
           \E field_value \in Texts(0..MaxFieldLen) :
               h = [op |-> "input", operation_number |-> operation_number,
                    payment |-> RulePayment(field_value), res |-> FALSE]

\* self._check_operation_match(payment, operation_number)
RuleCheck ==
    /\ h.op = "input"
    /\ h' = [h EXCEPT !.op = "rule",
                      !.res = CheckOperationMatch(h.payment, h.operation_number)]
    /\ UNCHANGED << file, state, line_ids, matched_payment_ids,
                    pstate, badPay, libs, today, env >>

RuleNext == RuleCheck

RuleSpec == RuleInit /\ [][RuleNext]_vars

\* the three tests of the loop over fields_to_check that precede the suffix
\* test
HitsWithoutSuffix(field_value, operation_number) ==
    /\ field_value # <<>>
    /\ \/ Contains(operation_number, Strip(field_value))
       \/ /\ StripZeros(Strip(operation_number)) # <<"0">>
          /\ Contains(StripZeros(Strip(operation_number)), Strip(field_value))
       \/ StripZeros(Strip(operation_number)) = StripZeros(Strip(field_value))

\* the suffix test
SuffixHits(field_value, operation_number) ==
    /\ field_value # <<>>
    /\ Len(Strip(field_value)) >= 6
    /\ \/ operation_number = LastN(Strip(field_value), 6)
       \/ StripZeros(Strip(operation_number))
              = LStripCh(LastN(Strip(field_value), 6), "0")

\* C30: for every non-empty operation number and every payment, the
\* operation rule returns what the rule restricted to verbatim substring,
\* zero-stripped substring and zero-stripped equality returns: the
\* 6-character suffix test never changes the result.
C30_SuffixRedundant ==
    h.op = "rule" =>
        h.res = \E f \in OperationFields(h.payment) :
                    HitsWithoutSuffix(f, h.operation_number)

\* the rule has just hit on a field of more than six characters on which the
\* suffix test hits, the operation number not occurring verbatim in it
C30_Witness ==
    /\ h.op = "rule" /\ h.res
    /\ Len(Strip(h.payment.memo)) > 6
    /\ SuffixHits(h.payment.memo, h.operation_number)
    /\ ~Contains(h.operation_number, Strip(h.payment.memo))

====
